---- MODULE Spec2Model ----
(***************************************************************************)
(* Model of the inspect verification portfolio of cobbler:                 *)
(*   internal/inspect/composite.go   (composite scorer)                    *)
(*   internal/inspect/mutation.go    (mutation runner)                     *)
(*   the translation validator       (unnamed/part_000)                    *)
(*   internal/inspect/types.go       (result model, named errors)          *)
(*                                                                         *)
(* Numbers.  Scores, weights and thresholds are float64 in the source and  *)
(* in the model: a value is NaN, an infinity or a signed 53-bit            *)
(* significand times a power of two, and +, * and / round the exact result *)
(* to the nearest value, ties to even, as IEEE-754 and the Go              *)
(* specification define them.  A decimal literal such as 0.30 is the       *)
(* float64 nearest to 30/100.  No subnormal or overflow arises from the    *)
(* values used.                                                            *)
(* The Go specification lets a build fuse x*y + z into one operation with  *)
(* a single rounding (arm64, ppc64le, s390x, riscv64 do; amd64 does not):  *)
(* the variable fused says which build is running.                         *)
(***************************************************************************)
EXTENDS Integers, Sequences, FiniteSets, TLC

VARIABLES
    fused,      \* whether the build fuses x*y + z into one rounding
    config,     \* Scorer.config (composite.go:43-45)
    scorerErr,  \* the error NewScorer reported at construction ("nil": none)
    results,    \* the caller's []TechniqueResult of the current inspection
    cr,         \* the CompositeResult the last Score call returned, or None
    dw,         \* the value the last DeterministicWeight call returned, or None
    input,      \* the InspectInput snapshot of the inspection (types.go:59-69)
    disk,       \* the file system: path -> [exists, bytes]
    disk0,      \* the file system as it was before any technique ran
    faults,     \* number of I/O failures the environment has produced so far
    ioLog,      \* the reads, writes and command invocations issued, in order
    mrPc,       \* position of MutationRunner.Run
    allMutants, \* MutationRunner.Run: allMutants (mutation.go:73)
    mi,         \* MutationRunner.Run: index of the mutant being applied
    mrContent,  \* applyAndTest: content, the bytes read (mutation.go:201)
    mrKilled,   \* applyAndTest: killed (mutation.go:223)
    mrResult,   \* what MutationRunner.Run returned: [result, err], or None
    tvResult,   \* what TranslationValidator.Run returned: [result, err], or None
    weightMaps, \* the map[string]float64 objects allocated; 1 is DefaultWeights
    callerConfigs, \* the ScorerConfig values a caller holds; Weights refers to a map
    scorers,    \* the Scorer instances constructed: [config]; Weights refers to a map
    cupboard,   \* the *Cupboard NewCupboard returned: [backend, dataDir], or None
    attached,   \* the backend: whether it is attached
    crumbTable, \* the backend: the crumbs table, id -> entity
    generated,  \* the backend: number of ids it has generated
    closes,     \* number of Close calls made on the cupboard (counted up to MaxCloses)
    cbRet       \* what the last Cupboard call returned: [op, val, err], or None

scorerVars == <<fused, config, scorerErr, results, cr, dw>>

mrVars == <<mrPc, allMutants, mi, mrContent, mrKilled, mrResult>>

inspectVars == <<input, disk, disk0, faults, ioLog, mrPc, allMutants, mi,
                 mrContent, mrKilled, mrResult, tvResult>>

ownerVars == <<weightMaps, callerConfigs, scorers>>

cupboardVars == <<cupboard, attached, crumbTable, generated, closes, cbRet>>

vars == <<fused, config, scorerErr, results, cr, dw, input, disk, disk0, faults, ioLog,
          mrPc, allMutants, mi, mrContent, mrKilled, mrResult, tvResult,
          weightMaps, callerConfigs, scorers,
          cupboard, attached, crumbTable, generated, closes, cbRet>>

None == [none |-> TRUE]

(***************************************************************************)
(* Bounds of the model.                                                    *)
(***************************************************************************)
MaxResults == 3
MaxFaults == 1
MaxMaps == 3
MaxScorers == 2
MaxCloses == 2

(***************************************************************************)
(* types.go: verdicts and actions.                                         *)
(***************************************************************************)
VerdictPass == "pass"
VerdictFail == "fail"
VerdictSkip == "skip"

ActionAccept == "accept"
ActionMend == "mend"
ActionHumanReview == "human_review"

ErrInvalidWeight == "inspect: technique weight must be between 0.0 and 1.0"
ErrNoTechniques == "inspect: no techniques registered"

TechniqueResult(name, score, verdict, det) ==
    [Name |-> name, Score |-> score, Verdict |-> verdict,
     Evidence |-> <<>>, Deterministic |-> det]

(***************************************************************************)
(* Natural numbers of any size: little-endian sequences of 13-bit limbs    *)
(* without leading zero limbs (the empty sequence is 0).                   *)
(***************************************************************************)
Base == 2^13

Limb(a, i) == IF i <= Len(a) THEN a[i] ELSE 0

RECURSIVE BStrip(_)
BStrip(a) ==
    IF Len(a) > 0 /\ a[Len(a)] = 0 THEN BStrip(SubSeq(a, 1, Len(a) - 1)) ELSE a

RECURSIVE BFromInt(_)
BFromInt(n) == IF n = 0 THEN <<>> ELSE <<n % Base>> \o BFromInt(n \div Base)

RECURSIVE BAddC(_, _, _, _)
BAddC(a, b, i, c) ==
    IF i > Len(a) /\ i > Len(b)
    THEN (IF c = 0 THEN <<>> ELSE <<c>>)
    ELSE LET s == Limb(a, i) + Limb(b, i) + c
         IN  <<s % Base>> \o BAddC(a, b, i + 1, s \div Base)

BAdd(a, b) == BAddC(a, b, 1, 0)

\* a - b, for a >= b
RECURSIVE BSubC(_, _, _, _)
BSubC(a, b, i, br) ==
    IF i > Len(a) THEN <<>>
    ELSE LET d == a[i] - Limb(b, i) - br
         IN  IF d < 0 THEN <<d + Base>> \o BSubC(a, b, i + 1, 1)
             ELSE <<d>> \o BSubC(a, b, i + 1, 0)

BSub(a, b) == BStrip(BSubC(a, b, 1, 0))

RECURSIVE BCmpAt(_, _, _)
BCmpAt(a, b, i) ==
    IF i = 0 THEN 0
    ELSE IF a[i] > b[i] THEN 1
    ELSE IF a[i] < b[i] THEN 0 - 1
    ELSE BCmpAt(a, b, i - 1)

\* -1, 0 or 1 as a < b, a = b or a > b
BCmp(a, b) ==
    IF Len(a) > Len(b) THEN 1
    ELSE IF Len(a) < Len(b) THEN 0 - 1
    ELSE BCmpAt(a, b, Len(a))

RECURSIVE BMulSmallC(_, _, _, _)
BMulSmallC(a, k, i, c) ==
    IF i > Len(a) THEN (IF c = 0 THEN <<>> ELSE <<c>>)
    ELSE LET p == a[i] * k + c
         IN  <<p % Base>> \o BMulSmallC(a, k, i + 1, p \div Base)

\* a * k, for 0 <= k < Base
BMulSmall(a, k) == IF k = 0 THEN <<>> ELSE BMulSmallC(a, k, 1, 0)

RECURSIVE BMul(_, _)
BMul(a, b) ==
    IF a = <<>> \/ b = <<>> THEN <<>>
    ELSE LET rest == BMul(a, Tail(b))
         IN  BAdd(BMulSmall(a, b[1]), IF rest = <<>> THEN <<>> ELSE <<0>> \o rest)

RECURSIVE IntBitLen(_)
IntBitLen(n) == IF n = 0 THEN 0 ELSE 1 + IntBitLen(n \div 2)

BBitLen(a) == IF a = <<>> THEN 0 ELSE 13 * (Len(a) - 1) + IntBitLen(a[Len(a)])

\* a * 2^s
BShl(a, s) ==
    IF a = <<>> THEN <<>>
    ELSE LET d == s \div 13
             b == s % 13
         IN  [i \in 1..d |-> 0] \o BMulSmall(a, 2^b)

\* floor(a / 2^s)
BShr(a, s) ==
    LET d == s \div 13
        b == s % 13
    IN  IF d >= Len(a) THEN <<>>
        ELSE BStrip([i \in 1..(Len(a) - d) |->
                        (a[i + d] \div 2^b) + (Limb(a, i + d + 1) % 2^b) * 2^(13 - b)])

BIsOdd(a) == a # <<>> /\ a[1] % 2 = 1

(***************************************************************************)
(* float64.  A value is NaN, an infinity, or the number (-1)^neg * m * 2^e *)
(* with m = 0 (and e = 0) or 2^52 <= m < 2^53: the 53-bit significand of a *)
(* normal binary64 number.  Zero has a sign, as in IEEE-754.  Every        *)
(* operation rounds the exact result to the nearest such number, ties to   *)
(* even.                                                                   *)
(***************************************************************************)
Precision == 52 + 1

FNaN == [k |-> "nan", neg |-> FALSE, m |-> <<>>, e |-> 0]

FInf == [k |-> "inf", neg |-> FALSE, m |-> <<>>, e |-> 0]

FZero == [k |-> "num", neg |-> FALSE, m |-> <<>>, e |-> 0]

\* -x
FNeg(x) == IF x.k = "nan" THEN x ELSE [x EXCEPT !.neg = ~@]

\* The float64 nearest to m * 2^e (plus a little, when sticky), for a natural m.
FRound(m, e, sticky) ==
    LET n == BBitLen(m)
    IN  IF n = 0 THEN FZero
        ELSE IF n <= Precision
        THEN [k |-> "num", neg |-> FALSE,
              m |-> BShl(m, Precision - n), e |-> e - (Precision - n)]
        ELSE LET s    == n - Precision
                 q    == BShr(m, s)
                 r    == BSub(m, BShl(q, s))
                 c    == BCmp(r, BShl(<<1>>, s - 1))
                 up   == c > 0 \/ (c = 0 /\ (sticky \/ BIsOdd(q)))
                 q1   == IF up THEN BAdd(q, <<1>>) ELSE q
             IN  IF BBitLen(q1) > Precision
                 THEN [k |-> "num", neg |-> FALSE, m |-> BShr(q1, 1), e |-> e + s + 1]
                 ELSE [k |-> "num", neg |-> FALSE, m |-> q1, e |-> e + s]

\* The float64 nearest to (-1)^neg * m * 2^e; a zero result of a sum is +0.
FRoundSigned(neg, m, e, sticky) ==
    IF m = <<>> THEN FZero ELSE [FRound(m, e, sticky) EXCEPT !.neg = neg]

\* float64(n) for an int n
FInt(n) == FRoundSigned(n < 0, BFromInt(IF n < 0 THEN 0 - n ELSE n), 0, FALSE)

FIsNaN(x) == x.k = "nan"

FIsInf(x) == x.k = "inf"

FIsZero(x) == x.k = "num" /\ x.m = <<>>

\* The exact sum (-1)^an * am * 2^ae + (-1)^bn * bm * 2^be, rounded once.
AddRound(an, am, ae, bn, bm, be) ==
    LET e  == IF ae < be THEN ae ELSE be
        a  == BShl(am, ae - e)
        b  == BShl(bm, be - e)
        c  == BCmp(a, b)
    IN  FRoundSigned(IF an = bn \/ c >= 0 THEN an ELSE bn,
                     IF an = bn THEN BAdd(a, b)
                     ELSE IF c >= 0 THEN BSub(a, b) ELSE BSub(b, a),
                     e, FALSE)

\* x + y
FAdd(x, y) ==
    IF FIsNaN(x) \/ FIsNaN(y) THEN FNaN
    ELSE IF FIsInf(x) THEN (IF FIsInf(y) /\ x.neg # y.neg THEN FNaN ELSE x)
    ELSE IF FIsInf(y) THEN y
    ELSE IF FIsZero(x) /\ FIsZero(y) THEN (IF x.neg /\ y.neg THEN x ELSE FZero)
    ELSE IF FIsZero(x) THEN y
    ELSE IF FIsZero(y) THEN x
    ELSE AddRound(x.neg, x.m, x.e, y.neg, y.m, y.e)

\* x * y
FMul(x, y) ==
    IF FIsNaN(x) \/ FIsNaN(y) THEN FNaN
    ELSE IF FIsInf(x) \/ FIsInf(y)
    THEN (IF FIsZero(x) \/ FIsZero(y) THEN FNaN
          ELSE [FInf EXCEPT !.neg = (x.neg # y.neg)])
    ELSE IF FIsZero(x) \/ FIsZero(y) THEN [FZero EXCEPT !.neg = (x.neg # y.neg)]
    ELSE FRoundSigned(x.neg # y.neg, BMul(x.m, y.m), x.e + y.e, FALSE)

\* Long division: n more quotient bits of r / d (r < d), 13 at most.
\* Returns [q, r]: the bits as an int and the remainder.
RECURSIVE DivBits(_, _, _, _)
DivBits(r, d, n, q) ==
    IF n = 0 THEN [q |-> q, r |-> r]
    ELSE LET r2 == BAdd(r, r)
         IN  IF BCmp(r2, d) >= 0
             THEN DivBits(BSub(r2, d), d, n - 1, 2 * q + 1)
             ELSE DivBits(r2, d, n - 1, 2 * q)

\* floor(a * 2^(13 * limbs) / d) for a < d: [q, r], q little-endian.
RECURSIVE DivLimbs(_, _, _)
DivLimbs(r, d, limbs) ==
    IF limbs = 0 THEN [q |-> <<>>, r |-> r]
    ELSE LET top  == DivBits(r, d, 13, 0)
             rest == DivLimbs(top.r, d, limbs - 1)
         IN  [q |-> Append(rest.q, top.q), r |-> rest.r]

\* x / y
FDiv(x, y) ==
    IF FIsNaN(x) \/ FIsNaN(y) THEN FNaN
    ELSE IF FIsInf(x)
    THEN (IF FIsInf(y) THEN FNaN ELSE [FInf EXCEPT !.neg = (x.neg # y.neg)])
    ELSE IF FIsInf(y) THEN [FZero EXCEPT !.neg = (x.neg # y.neg)]
    ELSE IF FIsZero(y)
    THEN (IF FIsZero(x) THEN FNaN ELSE [FInf EXCEPT !.neg = (x.neg # y.neg)])
    ELSE IF FIsZero(x) THEN [FZero EXCEPT !.neg = (x.neg # y.neg)]
    ELSE LET ge   == BCmp(x.m, y.m) >= 0
             r0   == IF ge THEN BSub(x.m, y.m) ELSE x.m
             d    == DivLimbs(r0, y.m, 5)
             q    == BStrip(d.q \o (IF ge THEN <<1>> ELSE <<>>))
         IN  FRoundSigned(x.neg # y.neg, q, x.e - y.e - 65, d.r # <<>>)

\* -1, 0, 1 for |x| < |y|, |x| = |y|, |x| > |y|; neither is NaN
FCmpMag(x, y) ==
    IF FIsInf(x) THEN (IF FIsInf(y) THEN 0 ELSE 1)
    ELSE IF FIsInf(y) THEN 0 - 1
    ELSE IF FIsZero(x) THEN (IF FIsZero(y) THEN 0 ELSE 0 - 1)
    ELSE IF FIsZero(y) THEN 1
    ELSE IF x.e > y.e THEN 1
    ELSE IF x.e < y.e THEN 0 - 1
    ELSE BCmp(x.m, y.m)

\* -1, 0, 1 for x < y, x = y, x > y; neither is NaN; -0 = +0
FCmp(x, y) ==
    IF FIsZero(x) /\ FIsZero(y) THEN 0
    ELSE IF x.neg /\ ~y.neg THEN 0 - 1
    ELSE IF ~x.neg /\ y.neg THEN 1
    ELSE (IF x.neg THEN 0 - 1 ELSE 1) * FCmpMag(x, y)

FGeq(x, y) == ~FIsNaN(x) /\ ~FIsNaN(y) /\ FCmp(x, y) >= 0

FLt(x, y) == ~FIsNaN(x) /\ ~FIsNaN(y) /\ FCmp(x, y) < 0

FLeq(x, y) == ~FIsNaN(x) /\ ~FIsNaN(y) /\ FCmp(x, y) <= 0

FEq(x, y) == ~FIsNaN(x) /\ ~FIsNaN(y) /\ FCmp(x, y) = 0

\* The float64 a decimal literal n/100 denotes (n hundredths).
Hundredths(n) == FDiv(FInt(n), FInt(100))

\* x*y + z with one rounding (a fused multiply-add)
FMA(x, y, z) ==
    IF x.k # "num" \/ y.k # "num" \/ z.k # "num" \/ FIsZero(x) \/ FIsZero(y)
    THEN FAdd(FMul(x, y), z)
    ELSE AddRound(x.neg # y.neg, BMul(x.m, y.m), x.e + y.e,
                  z.neg, z.m, IF FIsZero(z) THEN x.e + y.e ELSE z.e)

FOne == FInt(1)

(***************************************************************************)
(* composite.go: default configuration.                                    *)
(***************************************************************************)
DefaultWeights_uniform ==
    [n \in {"translation_validation", "mutation_testing", "differential_testing",
            "property_based_testing", "contract_injection"} |-> Hundredths(20)]

DefaultWeights ==
    [n \in {"translation_validation", "mutation_testing", "differential_testing",
            "property_based_testing", "contract_injection"} |->
        CASE n = "translation_validation" -> Hundredths(30)
          [] n = "mutation_testing"       -> Hundredths(25)
          [] n = "differential_testing"   -> Hundredths(20)
          [] n = "property_based_testing" -> Hundredths(15)
          [] n = "contract_injection"     -> Hundredths(10)]

DefaultAcceptThreshold == Hundredths(80)

DefaultMendThreshold == Hundredths(50)

DefaultMinDeterministic == Hundredths(50)

DefaultScorerConfig ==
    [Weights          |-> DefaultWeights,
     AcceptThreshold  |-> DefaultAcceptThreshold,
     MendThreshold    |-> DefaultMendThreshold,
     MinDeterministic |-> DefaultMinDeterministic]

(***************************************************************************)
(* composite.go: Scorer.                                                   *)
(***************************************************************************)
\* The weight of a name that is not in the map: 0.10
UnknownWeight == Hundredths(10)

weightFor_zeroDefault(cfg, name) ==
    IF name \in DOMAIN cfg.Weights THEN cfg.Weights[name] ELSE FZero

weightFor(cfg, name) ==
    IF name \in DOMAIN cfg.Weights THEN cfg.Weights[name] ELSE UnknownWeight

actionFor_strict(cfg, score) ==
    IF FGeq(score, cfg.AcceptThreshold) /\ ~FEq(score, cfg.AcceptThreshold)
    THEN ActionAccept
    ELSE IF FGeq(score, cfg.MendThreshold) THEN ActionMend
    ELSE ActionHumanReview

actionFor(cfg, score) ==
    IF FGeq(score, cfg.AcceptThreshold) THEN ActionAccept
    ELSE IF FGeq(score, cfg.MendThreshold) THEN ActionMend
    ELSE ActionHumanReview

\* weightedSum += r.Score * w, as the build compiles it
MulAdd(sum, s, w) == IF fused THEN FMA(s, w, sum) ELSE FAdd(sum, FMul(s, w))

\* One iteration of the loop of Score (composite.go:65-73) over result r.
ScoreStep_countSkips(cfg, acc, r) ==
    IF r.Verdict = VerdictSkip
    THEN [acc EXCEPT !.scored = @ + 1]
    ELSE [weightedSum |-> MulAdd(acc.weightedSum, r.Score, weightFor(cfg, r.Name)),
          totalWeight |-> FAdd(acc.totalWeight, weightFor(cfg, r.Name)),
          scored      |-> acc.scored + 1]

ScoreStep_deterministicOnly(cfg, acc, r) ==
    IF r.Verdict = VerdictSkip \/ ~r.Deterministic
    THEN acc
    ELSE [weightedSum |-> MulAdd(acc.weightedSum, r.Score, weightFor(cfg, r.Name)),
          totalWeight |-> FAdd(acc.totalWeight, weightFor(cfg, r.Name)),
          scored      |-> acc.scored + 1]

ScoreStep(cfg, acc, r) ==
    IF r.Verdict = VerdictSkip
    THEN acc
    ELSE [weightedSum |-> MulAdd(acc.weightedSum, r.Score, weightFor(cfg, r.Name)),
          totalWeight |-> FAdd(acc.totalWeight, weightFor(cfg, r.Name)),
          scored      |-> acc.scored + 1]

RECURSIVE ScoreLoop(_, _, _, _)
ScoreLoop(cfg, rs, i, acc) ==
    IF i > Len(rs) THEN acc
    ELSE ScoreLoop(cfg, rs, i + 1, ScoreStep(cfg, acc, rs[i]))

\* Score accepting a single scored technique as valid.
Score_oneSuffices(cfg, rs) ==
    LET acc == ScoreLoop(cfg, rs, 1,
                         [weightedSum |-> FZero, totalWeight |-> FZero, scored |-> 0])
        composite == FDiv(acc.weightedSum, acc.totalWeight)
    IN  IF acc.scored < 1
        THEN [TechniqueResults |-> rs,
              CompositeScore   |-> FZero,
              Action           |-> ActionHumanReview,
              ValidScore       |-> FALSE]
        ELSE [TechniqueResults |-> rs,
              CompositeScore   |-> composite,
              Action           |-> actionFor(cfg, composite),
              ValidScore       |-> TRUE]

Score(cfg, rs) ==
    LET acc == ScoreLoop(cfg, rs, 1,
                         [weightedSum |-> FZero, totalWeight |-> FZero, scored |-> 0])
        composite == FDiv(acc.weightedSum, acc.totalWeight)
    IN  IF acc.scored < 2
        THEN [TechniqueResults |-> rs,
              CompositeScore   |-> FZero,
              Action           |-> ActionHumanReview,
              ValidScore       |-> FALSE]
        ELSE [TechniqueResults |-> rs,
              CompositeScore   |-> composite,
              Action           |-> actionFor(cfg, composite),
              ValidScore       |-> TRUE]

\* One iteration of the loop of DeterministicWeight (composite.go:94-103).
DetStep(cfg, acc, r) ==
    IF r.Verdict = VerdictSkip
    THEN acc
    ELSE [totalWeight         |-> FAdd(acc.totalWeight, weightFor(cfg, r.Name)),
          deterministicWeight |-> IF r.Deterministic
                                  THEN FAdd(acc.deterministicWeight,
                                            weightFor(cfg, r.Name))
                                  ELSE acc.deterministicWeight]

RECURSIVE DetLoop(_, _, _, _)
DetLoop(cfg, rs, i, acc) ==
    IF i > Len(rs) THEN acc
    ELSE DetLoop(cfg, rs, i + 1, DetStep(cfg, acc, rs[i]))

DeterministicWeight(cfg, rs) ==
    LET acc == DetLoop(cfg, rs, 1,
                       [totalWeight |-> FZero, deterministicWeight |-> FZero])
    IN  IF FEq(acc.totalWeight, FZero) THEN FZero
        ELSE FDiv(acc.deterministicWeight, acc.totalWeight)

(***************************************************************************)
(* The configurations and results the caller may supply.  ScorerConfig is  *)
(* a plain struct: NewScorer accepts any weights and thresholds.           *)
(***************************************************************************)
ZeroWeights ==
    [n \in {"translation_validation", "mutation_testing"} |-> FZero]

OutOfRangeWeights ==
    [n \in {"translation_validation", "mutation_testing"} |->
        IF n = "translation_validation" THEN Hundredths(150) ELSE Hundredths(0 - 25)]

Configs ==
    { DefaultScorerConfig,
      [DefaultScorerConfig EXCEPT !.AcceptThreshold = DefaultMendThreshold,
                                  !.MendThreshold = DefaultAcceptThreshold],
      [DefaultScorerConfig EXCEPT !.Weights = ZeroWeights],
      [DefaultScorerConfig EXCEPT !.Weights = OutOfRangeWeights] }

ResultPool ==
    { TechniqueResult("translation_validation", Hundredths(60), VerdictFail, FALSE),
      TechniqueResult("mutation_testing", Hundredths(70), VerdictFail, TRUE),
      TechniqueResult("differential_testing", FOne, VerdictPass, TRUE),
      TechniqueResult("unknown_technique", FOne, VerdictPass, FALSE),
      TechniqueResult("mutation_testing", FZero, VerdictSkip, TRUE) }

\* Scenario A (composite_test.go:10-14)
ScenarioA ==
    << TechniqueResult("translation_validation", Hundredths(90), VerdictPass, FALSE),
       TechniqueResult("mutation_testing", Hundredths(85), VerdictPass, TRUE),
       TechniqueResult("differential_testing", Hundredths(80), VerdictPass, TRUE) >>

\* Two techniques that both score exactly the accept threshold.
ScenarioAtThreshold ==
    << TechniqueResult("translation_validation", Hundredths(80), VerdictPass, FALSE),
       TechniqueResult("mutation_testing", Hundredths(80), VerdictPass, TRUE) >>

PreparedLists == { ScenarioA, ScenarioAtThreshold }

(***************************************************************************)
(* Text.  File contents, paths and tokens are sequences of one-character   *)
(* strings, so that strings.Split, strings.Join, strings.Replace and       *)
(* strings.HasSuffix are computed as the Go library computes them.         *)
(***************************************************************************)
SubSeqAt(s, i, n) == SubSeq(s, i, i + n - 1)

\* strings.HasSuffix(s, suffix)
HasSuffix(s, suffix) ==
    /\ Len(s) >= Len(suffix)
    /\ SubSeq(s, Len(s) - Len(suffix) + 1, Len(s)) = suffix

\* strings.Index(s, sub), 1-based; 0 when sub does not occur.
RECURSIVE IndexFrom(_, _, _)
IndexFrom(s, sub, i) ==
    IF i + Len(sub) - 1 > Len(s) THEN 0
    ELSE IF SubSeqAt(s, i, Len(sub)) = sub THEN i
    ELSE IndexFrom(s, sub, i + 1)

Index(s, sub) == IndexFrom(s, sub, 1)

\* strings.Replace(s, old, new, 1), for a non-empty old.
Replace1(s, old, new) ==
    LET i == Index(s, old)
    IN  IF i = 0 THEN s
        ELSE SubSeq(s, 1, i - 1) \o new \o SubSeq(s, i + Len(old), Len(s))

\* strings.Split(s, "\n")
RECURSIVE SplitFrom(_, _, _)
SplitFrom(s, i, cur) ==
    IF i > Len(s) THEN <<cur>>
    ELSE IF s[i] = "\n" THEN <<cur>> \o SplitFrom(s, i + 1, <<>>)
    ELSE SplitFrom(s, i + 1, Append(cur, s[i]))

Split(s) == SplitFrom(s, 1, <<>>)

\* strings.Join(lines, "\n")
RECURSIVE Join(_)
Join(lines) ==
    IF Len(lines) = 0 THEN <<>>
    ELSE IF Len(lines) = 1 THEN lines[1]
    ELSE lines[1] \o <<"\n">> \o Join(Tail(lines))

(***************************************************************************)
(* The workspace of an inspection: paths and sources.                      *)
(***************************************************************************)
PathA == <<"a", ".", "g", "o">>
PathN == <<"n", ".", "g", "o">>
PathTest == <<"a", "_", "t", "e", "s", "t", ".", "g", "o">>
PathBad == <<"b", "a", "d", ".", "g", "o">>
PathMissing == <<"m", "i", "s", "s", "i", "n", "g", ".", "g", "o">>
PathT == <<"t", ".", "g", "o">>
PathV == <<"v", ".", "g", "o">>

Paths == {PathA, PathN, PathTest, PathBad, PathMissing, PathT, PathV}

SuffixGo == <<".", "g", "o">>
SuffixTestGo == <<"_", "t", "e", "s", "t", ".", "g", "o">>

\* package p
\* var x = a < b
SrcLess ==
    <<"p", "a", "c", "k", "a", "g", "e", " ", "p", "\n",
      "v", "a", "r", " ", "x", " ", "=", " ", "a", " ", "<", " ", "b", "\n">>

\* package p
\* var y = !c
SrcNot ==
    <<"p", "a", "c", "k", "a", "g", "e", " ", "p", "\n",
      "v", "a", "r", " ", "y", " ", "=", " ", "!", "c", "\n">>

\* package p
\* var z = a - -b
SrcMinus ==
    <<"p", "a", "c", "k", "a", "g", "e", " ", "p", "\n",
      "v", "a", "r", " ", "z", " ", "=", " ", "a", " ", "-", " ", "-", "b", "\n">>

\* func            (no package clause: a syntax error)
SrcBad == <<"f", "u", "n", "c", "\n">>

File(bytes) == [exists |-> TRUE, bytes |-> bytes]

NoFile == [exists |-> FALSE, bytes |-> <<>>]

InitialDisk ==
    [p \in Paths |->
        CASE p = PathA    -> File(SrcLess)
          [] p = PathN    -> File(SrcNot)
          [] p = PathTest -> File(SrcLess)
          [] p = PathBad  -> File(SrcBad)
          [] p = PathT    -> File(SrcMinus)
          [] OTHER        -> NoFile]

FileLists ==
    { <<>>,
      <<PathA>>,
      <<PathA, PathN>>,
      <<PathBad, PathA>>,
      <<PathA, PathMissing>>,
      <<PathA, PathT>>,
      <<PathTest, PathBad, PathMissing>> }

PackageLists == { <<>>, <<"./pkg/foo">> }

CriteriaLists ==
    { <<>>, <<"Files exist">>, <<"Code compiles and tests pass", "Files present">> }

Inputs ==
    { [WorkType         |-> wt,
       ModifiedFiles    |-> fl,
       ModifiedPackages |-> pk,
       PRDCriteria      |-> prd,
       UCCriteria       |-> uc] :
        wt \in {"code", "docs"}, fl \in FileLists, pk \in PackageLists,
        prd \in CriteriaLists, uc \in CriteriaLists }

(***************************************************************************)
(* The environment: file I/O and the go tool.                              *)
(***************************************************************************)
\* os.WriteFile opens with O_TRUNC and then writes: it succeeds, or fails
\* before touching the file, or fails after truncating it.
WriteOutcomes == IF faults < MaxFaults
                 THEN {"ok", "fail_untouched", "fail_truncated"}
                 ELSE {"ok"}

ReadOutcomes == IF faults < MaxFaults THEN {"ok", "fail"} ELSE {"ok"}

WriteFile(d, path, data, outcome) ==
    CASE outcome = "ok"             -> [d EXCEPT ![path] = File(data)]
      [] outcome = "fail_untouched" -> d
      [] outcome = "fail_truncated" -> [d EXCEPT ![path] = File(<<>>)]

FaultsAfter(outcome) == IF outcome = "ok" THEN faults ELSE faults + 1

(***************************************************************************)
(* go/token, and the parser collaborator: the binary and unary expression  *)
(* nodes of a source in the order ast.Inspect visits them, each with its   *)
(* operator and the line of its first token (Pos), or a syntax error.      *)
(***************************************************************************)
TokString(op) ==
    CASE op = "ADD"  -> <<"+">>
      [] op = "SUB"  -> <<"-">>
      [] op = "MUL"  -> <<"*">>
      [] op = "QUO"  -> <<"/">>
      [] op = "EQL"  -> <<"=", "=">>
      [] op = "NEQ"  -> <<"!", "=">>
      [] op = "LSS"  -> <<"<">>
      [] op = "GEQ"  -> <<">", "=">>
      [] op = "GTR"  -> <<">">>
      [] op = "LEQ"  -> <<"<", "=">>
      [] op = "LAND" -> <<"&", "&">>
      [] op = "LOR"  -> <<"|", "|">>
      [] op = "NOT"  -> <<"!">>
      [] op = "REM"  -> <<"%">>
      [] op = "SHL"  -> <<"<", "<">>
      [] op = "ASSIGN" -> <<"=">>

\* token.Token.Precedence of the binary operators.
Precedence(op) ==
    CASE op \in {"MUL", "QUO", "REM", "SHL"} -> 5
      [] op \in {"ADD", "SUB"} -> 4
      [] op \in {"EQL", "NEQ", "LSS", "LEQ", "GTR", "GEQ"} -> 3
      [] op = "LAND" -> 2
      [] op = "LOR" -> 1

BinaryOps ==
    {"ADD", "SUB", "MUL", "QUO", "REM", "SHL", "EQL", "NEQ",
     "LSS", "LEQ", "GTR", "GEQ", "LAND", "LOR"}

\* The sources  package p / var v = [!]a op1 b [op2 c]  with an optional line
\* break after op1 (the scanner inserts no semicolon after an operator).
Shapes ==
    [op1 : BinaryOps, op2 : BinaryOps \cup {"none"}, brk : BOOLEAN, not : BOOLEAN]

Render(s) ==
    <<"p", "a", "c", "k", "a", "g", "e", " ", "p", "\n",
      "v", "a", "r", " ", "v", " ", "=", " ">>
      \o (IF s.not THEN <<"!">> ELSE <<>>)
      \o <<"a", " ">> \o TokString(s.op1)
      \o (IF s.brk THEN <<"\n", "\t">> ELSE <<" ">>)
      \o <<"b">>
      \o (IF s.op2 = "none" THEN <<>> ELSE <<" ">> \o TokString(s.op2) \o <<" ", "c">>)
      \o <<"\n">>

\* The expression nodes of Render(s) in the order ast.Inspect visits them
\* (a node, then its X, then its Y).  Pos of a binary expression is the
\* position of its left operand; OpLine and OpCol locate OpPos.
ShapeNodes(s) ==
    LET c1 == 11 + (IF s.not THEN 1 ELSE 0)
        l2 == IF s.brk THEN 3 ELSE 2
        c2 == IF s.brk THEN 4 ELSE c1 + Len(TokString(s.op1)) + 3
        n1 == [kind |-> "BinaryExpr", Op |-> s.op1, PosLine |-> 2,
               OpLine |-> 2, OpCol |-> c1]
        nn == IF s.not
              THEN << [kind |-> "UnaryExpr", Op |-> "NOT", PosLine |-> 2,
                       OpLine |-> 2, OpCol |-> 9] >>
              ELSE <<>>
    IN  IF s.op2 = "none" THEN <<n1>> \o nn
        ELSE IF Precedence(s.op2) > Precedence(s.op1)
        THEN <<n1>> \o nn
               \o << [kind |-> "BinaryExpr", Op |-> s.op2, PosLine |-> l2,
                      OpLine |-> l2, OpCol |-> c2] >>
        ELSE << [kind |-> "BinaryExpr", Op |-> s.op2, PosLine |-> 2,
                 OpLine |-> l2, OpCol |-> c2] >>
               \o <<n1>> \o nn

ParsedShapes == { [bytes |-> Render(s), nodes |-> ShapeNodes(s)] : s \in Shapes }

\* package example / func add(a, b int) int { if a < b { return a + b }
\* return a - b }: the expression lines of the source of TestFindMutationSites.
SrcAdd ==
    <<"p", "a", "c", "k", "a", "g", "e", " ", "e", "\n",
      "f", "u", "n", "c", " ", "f", "(", ")", "{", "\n",
      "i", "f", " ", "a", " ", "<", " ", "b", " ", "{", "\n",
      "r", "e", "t", "u", "r", "n", " ", "a", " ", "+", " ", "b", "\n",
      "}", "\n",
      "r", "e", "t", "u", "r", "n", " ", "a", " ", "-", " ", "b", "\n",
      "}", "\n">>

ParseFile(d, path) ==
    IF ~d[path].exists THEN [err |-> TRUE, nodes |-> <<>>]
    ELSE CASE d[path].bytes = SrcLess ->
                [err |-> FALSE,
                 nodes |-> << [kind |-> "BinaryExpr", Op |-> "LSS", PosLine |-> 2,
                               OpLine |-> 2, OpCol |-> 11] >>]
           [] d[path].bytes = SrcMinus ->
                [err |-> FALSE,
                 nodes |-> << [kind |-> "BinaryExpr", Op |-> "SUB", PosLine |-> 2,
                               OpLine |-> 2, OpCol |-> 11] >>]
           [] d[path].bytes = SrcNot ->
                [err |-> FALSE,
                 nodes |-> << [kind |-> "UnaryExpr", Op |-> "NOT", PosLine |-> 2,
                               OpLine |-> 2, OpCol |-> 9] >>]
           [] d[path].bytes = SrcAdd ->
                [err |-> FALSE,
                 nodes |-> << [kind |-> "BinaryExpr", Op |-> "LSS", PosLine |-> 3,
                               OpLine |-> 3, OpCol |-> 6],
                              [kind |-> "BinaryExpr", Op |-> "ADD", PosLine |-> 4,
                               OpLine |-> 4, OpCol |-> 10],
                              [kind |-> "BinaryExpr", Op |-> "SUB", PosLine |-> 6,
                               OpLine |-> 6, OpCol |-> 10] >>]
           [] OTHER ->
                IF \E r \in ParsedShapes : r.bytes = d[path].bytes
                THEN [err |-> FALSE,
                      nodes |-> (CHOOSE r \in ParsedShapes :
                                    r.bytes = d[path].bytes).nodes]
                ELSE [err |-> TRUE, nodes |-> <<>>]

(***************************************************************************)
(* mutation.go: mutation operators and site discovery.                     *)
(***************************************************************************)
MutationOperatorReplace == "operator_replacement"
MutationConditionNegate == "condition_negation"
MutationBoundaryChange == "boundary_change"
MutationStatementDelete == "statement_deletion"

\* A replacement table that maps >= to > instead of <.
operatorReplacement_geqToGtr(op) ==
    CASE op = "ADD"  -> [ok |-> TRUE, tok |-> "SUB"]
      [] op = "SUB"  -> [ok |-> TRUE, tok |-> "ADD"]
      [] op = "MUL"  -> [ok |-> TRUE, tok |-> "QUO"]
      [] op = "QUO"  -> [ok |-> TRUE, tok |-> "MUL"]
      [] op = "EQL"  -> [ok |-> TRUE, tok |-> "NEQ"]
      [] op = "NEQ"  -> [ok |-> TRUE, tok |-> "EQL"]
      [] op = "LSS"  -> [ok |-> TRUE, tok |-> "GEQ"]
      [] op = "GEQ"  -> [ok |-> TRUE, tok |-> "GTR"]
      [] op = "GTR"  -> [ok |-> TRUE, tok |-> "LEQ"]
      [] op = "LEQ"  -> [ok |-> TRUE, tok |-> "GTR"]
      [] op = "LAND" -> [ok |-> TRUE, tok |-> "LOR"]
      [] op = "LOR"  -> [ok |-> TRUE, tok |-> "LAND"]
      [] OTHER       -> [ok |-> FALSE, tok |-> "ILLEGAL"]

\* operatorReplacement: [ok, tok]
operatorReplacement(op) ==
    CASE op = "ADD"  -> [ok |-> TRUE, tok |-> "SUB"]
      [] op = "SUB"  -> [ok |-> TRUE, tok |-> "ADD"]
      [] op = "MUL"  -> [ok |-> TRUE, tok |-> "QUO"]
      [] op = "QUO"  -> [ok |-> TRUE, tok |-> "MUL"]
      [] op = "EQL"  -> [ok |-> TRUE, tok |-> "NEQ"]
      [] op = "NEQ"  -> [ok |-> TRUE, tok |-> "EQL"]
      [] op = "LSS"  -> [ok |-> TRUE, tok |-> "GEQ"]
      [] op = "GEQ"  -> [ok |-> TRUE, tok |-> "LSS"]
      [] op = "GTR"  -> [ok |-> TRUE, tok |-> "LEQ"]
      [] op = "LEQ"  -> [ok |-> TRUE, tok |-> "GTR"]
      [] op = "LAND" -> [ok |-> TRUE, tok |-> "LOR"]
      [] op = "LOR"  -> [ok |-> TRUE, tok |-> "LAND"]
      [] OTHER       -> [ok |-> FALSE, tok |-> "ILLEGAL"]

\* boundaryChange: [ok, tok]
boundaryChange(op) ==
    CASE op = "LSS" -> [ok |-> TRUE, tok |-> "LEQ"]
      [] op = "LEQ" -> [ok |-> TRUE, tok |-> "LSS"]
      [] op = "GTR" -> [ok |-> TRUE, tok |-> "GEQ"]
      [] op = "GEQ" -> [ok |-> TRUE, tok |-> "GTR"]
      [] OTHER      -> [ok |-> FALSE, tok |-> "ILLEGAL"]

\* A mutant record that flags condition negations as equivalent.
Mutant_negationEquivalent(path, line, type, original, mutated) ==
    [FilePath |-> path, Line |-> line, Type |-> type,
     Original |-> original, Mutated |-> mutated,
     Killed |-> FALSE, Equivalent |-> (type = "condition_negation"),
     KillingTest |-> ""]

Mutant(path, line, type, original, mutated) ==
    [FilePath |-> path, Line |-> line, Type |-> type,
     Original |-> original, Mutated |-> mutated,
     Killed |-> FALSE, Equivalent |-> FALSE, KillingTest |-> ""]

\* The callback consulting the boundary table only when no replacement exists.
NodeMutants_boundaryOnlyElse(path, n) ==
    IF n.kind = "BinaryExpr"
    THEN (IF operatorReplacement(n.Op).ok
          THEN << Mutant(path, n.PosLine, MutationOperatorReplace,
                         TokString(n.Op), TokString(operatorReplacement(n.Op).tok)) >>
          ELSE IF boundaryChange(n.Op).ok
          THEN << Mutant(path, n.PosLine, MutationBoundaryChange,
                         TokString(n.Op), TokString(boundaryChange(n.Op).tok)) >>
          ELSE <<>>)
    ELSE IF n.kind = "UnaryExpr" /\ n.Op = "NOT"
    THEN << Mutant(path, n.PosLine, MutationConditionNegate,
                   <<"!", "e", "x", "p", "r">>, <<"e", "x", "p", "r">>) >>
    ELSE <<>>

\* The mutants one node yields (the body of the ast.Inspect callback).
NodeMutants(path, n) ==
    IF n.kind = "BinaryExpr"
    THEN (IF operatorReplacement(n.Op).ok
          THEN << Mutant(path, n.PosLine, MutationOperatorReplace,
                         TokString(n.Op), TokString(operatorReplacement(n.Op).tok)) >>
          ELSE <<>>)
         \o
         (IF boundaryChange(n.Op).ok
          THEN << Mutant(path, n.PosLine, MutationBoundaryChange,
                         TokString(n.Op), TokString(boundaryChange(n.Op).tok)) >>
          ELSE <<>>)
    ELSE IF n.kind = "UnaryExpr" /\ n.Op = "NOT"
    THEN << Mutant(path, n.PosLine, MutationConditionNegate,
                   <<"!", "e", "x", "p", "r">>, <<"e", "x", "p", "r">>) >>
    ELSE <<>>

RECURSIVE SitesOf(_, _, _)
SitesOf(path, nodes, i) ==
    IF i > Len(nodes) THEN <<>>
    ELSE NodeMutants(path, nodes[i]) \o SitesOf(path, nodes, i + 1)

\* findMutationSites: [err, mutants]
findMutationSites(d, path) ==
    LET f == ParseFile(d, path)
    IN  IF f.err THEN [err |-> TRUE, mutants |-> <<>>]
        ELSE [err |-> FALSE, mutants |-> SitesOf(path, f.nodes, 1)]

\* The first loop of Run (mutation.go:73-83).
RECURSIVE CollectMutants_stopAtError(_, _, _)
CollectMutants_stopAtError(d, files, i) ==
    IF i > Len(files) THEN <<>>
    ELSE IF ~HasSuffix(files[i], SuffixGo) \/ HasSuffix(files[i], SuffixTestGo)
    THEN CollectMutants_stopAtError(d, files, i + 1)
    ELSE IF findMutationSites(d, files[i]).err
    THEN <<>>
    ELSE findMutationSites(d, files[i]).mutants
             \o CollectMutants_stopAtError(d, files, i + 1)

RECURSIVE CollectMutants(_, _, _)
CollectMutants(d, files, i) ==
    IF i > Len(files) THEN <<>>
    ELSE IF ~HasSuffix(files[i], SuffixGo) \/ HasSuffix(files[i], SuffixTestGo)
    THEN CollectMutants(d, files, i + 1)
    ELSE IF findMutationSites(d, files[i]).err
    THEN CollectMutants(d, files, i + 1)
    ELSE findMutationSites(d, files[i]).mutants \o CollectMutants(d, files, i + 1)

(***************************************************************************)
(* mutation.go: MutationRunner.                                            *)
(***************************************************************************)
MRName == "mutation_testing"

SkipResult(name) ==
    [Name |-> name, Score |-> FZero, Verdict |-> VerdictSkip,
     Evidence |-> <<>>, Deterministic |-> TRUE]

MRApplicable_anyType(in) == Len(in.ModifiedPackages) > 0

MRApplicable(in) == in.WorkType = "code" /\ Len(in.ModifiedPackages) > 0

\* The counting loop of Run (mutation.go:105-123): [killed, total, evidence]
RECURSIVE CountMutants(_, _, _)
CountMutants(ms, i, acc) ==
    IF i > Len(ms) THEN acc
    ELSE IF ms[i].Equivalent THEN CountMutants(ms, i + 1, acc)
    ELSE IF ms[i].Killed
    THEN CountMutants(ms, i + 1,
             [acc EXCEPT !.total = @ + 1, !.killed = @ + 1])
    ELSE CountMutants(ms, i + 1,
             [acc EXCEPT !.total = @ + 1,
                         !.evidence = Append(@,
                             [CriterionID |-> "",
                              FilePath    |-> ms[i].FilePath,
                              Detail      |-> [text     |-> "surviving mutant",
                                               line     |-> ms[i].Line,
                                               original |-> ms[i].Original,
                                               mutated  |-> ms[i].Mutated,
                                               type     |-> ms[i].Type]])])

\* killed := m.runTests(packages) != nil
KilledBy_inverted(testErr) == ~testErr

KilledBy(testErr) == testErr

\* The result Run builds from the mutants (mutation.go:105-146).
MRScoreResult(ms) ==
    LET c == CountMutants(ms, 1, [killed |-> 0, total |-> 0, evidence |-> <<>>])
    IN  IF c.total = 0 THEN SkipResult(MRName)
        ELSE [Name          |-> MRName,
              Score         |-> FDiv(FInt(c.killed), FInt(c.total)),
              Verdict       |-> IF FLt(FDiv(FInt(c.killed), FInt(c.total)), FOne)
                               THEN VerdictFail ELSE VerdictPass,
              Evidence      |-> c.evidence,
              Deterministic |-> TRUE]

\* applyAndTest returned k for the current mutant: back in the loop of Run.
MRReturn(k) ==
    /\ allMutants' = [allMutants EXCEPT ![mi].Killed = k]
    /\ mi' = mi + 1
    /\ mrPc' = IF mi + 1 > Len(allMutants) THEN "score" ELSE "apply"
    /\ mrContent' = <<>>
    /\ mrKilled' = FALSE

\* Run up to the start of the mutation loop (mutation.go:63-92).
MRRunStart ==
    /\ mrPc = "idle"
    /\ IF ~MRApplicable(input)
       THEN /\ mrResult' = [result |-> SkipResult(MRName), err |-> "nil"]
            /\ mrPc' = "done"
            /\ UNCHANGED <<allMutants, mi>>
       ELSE LET ms == CollectMutants(disk, input.ModifiedFiles, 1)
            IN  IF Len(ms) = 0
                THEN /\ mrResult' = [result |-> SkipResult(MRName), err |-> "nil"]
                     /\ mrPc' = "done"
                     /\ UNCHANGED <<allMutants, mi>>
                ELSE /\ allMutants' = ms
                     /\ mi' = 1
                     /\ mrPc' = "apply"
                     /\ UNCHANGED mrResult
    /\ UNCHANGED <<mrContent, mrKilled, input, disk, disk0, faults, ioLog, tvResult>>
    /\ UNCHANGED scorerVars
    /\ UNCHANGED ownerVars
    /\ UNCHANGED cupboardVars

\* applyAndTest writing and testing also a mutant whose token is not on the line.
MRApply_writeUnchanged ==
    /\ mrPc = "apply"
    /\ LET m == allMutants[mi]
           lines == Split(disk[m.FilePath].bytes)
       IN  \E rd \in ReadOutcomes :
             IF rd = "fail" \/ ~disk[m.FilePath].exists
             THEN /\ MRReturn(FALSE)
                  /\ faults' = FaultsAfter(rd)
                  /\ ioLog' = Append(ioLog, [op |-> "read", path |-> m.FilePath,
                                             ok |-> FALSE, mutant |-> mi,
                                             bytes |-> <<>>])
                  /\ UNCHANGED <<disk, mrResult>>
             ELSE IF m.Line < 1 \/ m.Line > Len(lines)
             THEN /\ MRReturn(FALSE)
                  /\ ioLog' = Append(ioLog, [op |-> "read", path |-> m.FilePath,
                                             ok |-> TRUE, mutant |-> mi,
                                             bytes |-> disk[m.FilePath].bytes])
                  /\ UNCHANGED <<disk, faults, mrResult>>
             ELSE \E wr \in WriteOutcomes :
                    /\ disk' = WriteFile(disk, m.FilePath,
                                   Join([lines EXCEPT ![m.Line] =
                                            Replace1(@, m.Original, m.Mutated)]), wr)
                    /\ faults' = FaultsAfter(wr)
                    /\ ioLog' = ioLog \o
                          << [op |-> "read", path |-> m.FilePath,
                              ok |-> TRUE, mutant |-> mi,
                              bytes |-> disk[m.FilePath].bytes],
                             [op |-> "write", path |-> m.FilePath, kind |-> "mutated",
                              ok |-> (wr = "ok"), mutant |-> mi,
                              bytes |-> Join([lines EXCEPT ![m.Line] =
                                                 Replace1(@, m.Original, m.Mutated)])] >>
                    /\ IF wr = "ok"
                       THEN /\ mrContent' = disk[m.FilePath].bytes
                            /\ mrPc' = "test"
                            /\ UNCHANGED <<allMutants, mi, mrKilled, mrResult>>
                       ELSE /\ MRReturn(FALSE)
                            /\ UNCHANGED mrResult
    /\ UNCHANGED <<input, disk0, tvResult>>
    /\ UNCHANGED scorerVars
    /\ UNCHANGED ownerVars
    /\ UNCHANGED cupboardVars

\* applyAndTest up to the write of the mutated file (mutation.go:200-220).
MRApply ==
    /\ mrPc = "apply"
    /\ LET m == allMutants[mi]
           lines == Split(disk[m.FilePath].bytes)
           mutatedLine == Replace1(lines[m.Line], m.Original, m.Mutated)
       IN  \E rd \in ReadOutcomes :
             IF rd = "fail" \/ ~disk[m.FilePath].exists
             THEN /\ MRReturn(FALSE)
                  /\ faults' = FaultsAfter(rd)
                  /\ ioLog' = Append(ioLog, [op |-> "read", path |-> m.FilePath,
                                             ok |-> FALSE, mutant |-> mi,
                                             bytes |-> <<>>])
                  /\ UNCHANGED <<disk, mrResult>>
             ELSE IF m.Line < 1 \/ m.Line > Len(lines)
             THEN /\ MRReturn(FALSE)
                  /\ ioLog' = Append(ioLog, [op |-> "read", path |-> m.FilePath,
                                             ok |-> TRUE, mutant |-> mi,
                                             bytes |-> disk[m.FilePath].bytes])
                  /\ UNCHANGED <<disk, faults, mrResult>>
             ELSE IF mutatedLine = lines[m.Line]
             THEN /\ MRReturn(FALSE)
                  /\ ioLog' = Append(ioLog, [op |-> "read", path |-> m.FilePath,
                                             ok |-> TRUE, mutant |-> mi,
                                             bytes |-> disk[m.FilePath].bytes])
                  /\ UNCHANGED <<disk, faults, mrResult>>
             ELSE \E wr \in WriteOutcomes :
                    /\ disk' = WriteFile(disk, m.FilePath,
                                   Join([lines EXCEPT ![m.Line] = mutatedLine]), wr)
                    /\ faults' = FaultsAfter(wr)
                    /\ ioLog' = ioLog \o
                          << [op |-> "read", path |-> m.FilePath,
                              ok |-> TRUE, mutant |-> mi,
                              bytes |-> disk[m.FilePath].bytes],
                             [op |-> "write", path |-> m.FilePath, kind |-> "mutated",
                              ok |-> (wr = "ok"), mutant |-> mi,
                              bytes |-> Join([lines EXCEPT ![m.Line] = mutatedLine])] >>
                    /\ IF wr = "ok"
                       THEN /\ mrContent' = disk[m.FilePath].bytes
                            /\ mrPc' = "test"
                            /\ UNCHANGED <<allMutants, mi, mrKilled, mrResult>>
                       ELSE /\ MRReturn(FALSE)
                            /\ UNCHANGED mrResult
    /\ UNCHANGED <<input, disk0, tvResult>>
    /\ UNCHANGED scorerVars
    /\ UNCHANGED ownerVars
    /\ UNCHANGED cupboardVars

\* applyAndTest returning as soon as the test run has killed the mutant.
MRRunTests_returnWhenKilled ==
    /\ mrPc = "test"
    /\ \E testErr \in BOOLEAN :
          /\ ioLog' = Append(ioLog, [op |-> "test", by |-> MRName,
                                     failed |-> testErr, mutant |-> mi])
          /\ IF KilledBy(testErr)
             THEN MRReturn(TRUE)
             ELSE /\ mrKilled' = FALSE
                  /\ mrPc' = "restore"
                  /\ UNCHANGED <<allMutants, mi, mrContent>>
    /\ UNCHANGED <<mrResult, input, disk, disk0, faults, tvResult>>
    /\ UNCHANGED scorerVars
    /\ UNCHANGED ownerVars
    /\ UNCHANGED cupboardVars

\* applyAndTest: the test run (mutation.go:223).
MRRunTests ==
    /\ mrPc = "test"
    /\ \E testErr \in BOOLEAN :
          /\ mrKilled' = KilledBy(testErr)
          /\ ioLog' = Append(ioLog, [op |-> "test", by |-> MRName,
                                     failed |-> testErr, mutant |-> mi])
    /\ mrPc' = "restore"
    /\ UNCHANGED <<allMutants, mi, mrContent, mrResult, input, disk, disk0,
                   faults, tvResult>>
    /\ UNCHANGED scorerVars
    /\ UNCHANGED ownerVars
    /\ UNCHANGED cupboardVars

\* applyAndTest: the restoring write, its error discarded (mutation.go:226-228).
MRRestore ==
    /\ mrPc = "restore"
    /\ \E wr \in WriteOutcomes :
          /\ disk' = WriteFile(disk, allMutants[mi].FilePath, mrContent, wr)
          /\ faults' = FaultsAfter(wr)
          /\ ioLog' = Append(ioLog, [op |-> "write", path |-> allMutants[mi].FilePath,
                                     kind |-> "restore", ok |-> (wr = "ok"),
                                     mutant |-> mi, bytes |-> mrContent])
    /\ MRReturn(mrKilled)
    /\ UNCHANGED <<mrResult, input, disk0, tvResult>>
    /\ UNCHANGED scorerVars
    /\ UNCHANGED ownerVars
    /\ UNCHANGED cupboardVars

\* Run after the mutation loop (mutation.go:105-146).
MRFinish ==
    /\ mrPc = "score"
    /\ mrResult' = [result |-> MRScoreResult(allMutants), err |-> "nil"]
    /\ mrPc' = "done"
    /\ UNCHANGED <<allMutants, mi, mrContent, mrKilled, input, disk, disk0,
                   faults, ioLog, tvResult>>
    /\ UNCHANGED scorerVars
    /\ UNCHANGED ownerVars
    /\ UNCHANGED cupboardVars

(***************************************************************************)
(* The translation validator.                                              *)
(***************************************************************************)
TVName == "translation_validation"

TVApplicable(in) == Len(in.PRDCriteria) > 0 \/ Len(in.UCCriteria) > 0

\* buildChecks: the checks in generation order.
buildChecks_perCriterion(in) ==
    [i \in 1..Len(in.ModifiedFiles) |->
        [CriterionID |-> "file_exists",
         Description |-> <<"file", in.ModifiedFiles[i], "exists">>,
         path        |-> in.ModifiedFiles[i]]]
    \o (IF Len(in.ModifiedPackages) > 0 \/ Len(in.PRDCriteria) > 1
        THEN << [CriterionID |-> "compilation",
                 Description |-> <<"modified packages compile">>,
                 path        |-> <<>>] >>
        ELSE <<>>)
    \o (IF Len(in.ModifiedPackages) > 0
        THEN << [CriterionID |-> "tests_pass",
                 Description |-> <<"tests pass in modified packages">>,
                 path        |-> <<>>] >>
        ELSE <<>>)

buildChecks(in) ==
    [i \in 1..Len(in.ModifiedFiles) |->
        [CriterionID |-> "file_exists",
         Description |-> <<"file", in.ModifiedFiles[i], "exists">>,
         path        |-> in.ModifiedFiles[i]]]
    \o (IF Len(in.ModifiedPackages) > 0
        THEN << [CriterionID |-> "compilation",
                 Description |-> <<"modified packages compile">>,
                 path        |-> <<>>] >>
        ELSE <<>>)
    \o (IF Len(in.ModifiedPackages) > 0
        THEN << [CriterionID |-> "tests_pass",
                 Description |-> <<"tests pass in modified packages">>,
                 path        |-> <<>>] >>
        ELSE <<>>)

\* mc.Check(input), given what the build and the test command return.
CheckPasses_ignoreTests(mc, d, buildErr, testErr) ==
    CASE mc.CriterionID = "file_exists" -> d[mc.path].exists
      [] mc.CriterionID = "compilation" -> ~buildErr
      [] mc.CriterionID = "tests_pass"  -> TRUE

CheckPasses(mc, d, buildErr, testErr) ==
    CASE mc.CriterionID = "file_exists" -> d[mc.path].exists
      [] mc.CriterionID = "compilation" -> ~buildErr
      [] mc.CriterionID = "tests_pass"  -> ~testErr

\* The command or system call a check issues.
CheckEvent(mc, d, buildErr, testErr) ==
    CASE mc.CriterionID = "file_exists" ->
            [op |-> "stat", path |-> mc.path, ok |-> d[mc.path].exists]
      [] mc.CriterionID = "compilation" ->
            [op |-> "build", by |-> TVName, failed |-> buildErr]
      [] mc.CriterionID = "tests_pass" ->
            [op |-> "test", by |-> TVName, failed |-> testErr, mutant |-> 0]

\* The loop over the checks leaving at the first check that fails.
RECURSIVE EvalChecks_stopAtFailure(_, _, _, _, _, _)
EvalChecks_stopAtFailure(checks, i, acc, d, buildErr, testErr) ==
    IF i > Len(checks) THEN acc
    ELSE LET ok == CheckPasses(checks[i], d, buildErr, testErr)
             nx == [passed   |-> IF ok THEN acc.passed + 1 ELSE acc.passed,
                    evidence |-> Append(acc.evidence,
                                  [CriterionID |-> checks[i].CriterionID,
                                   FilePath    |-> <<>>,
                                   Detail      |-> [prefix |-> IF ok THEN "passed"
                                                                ELSE "failed",
                                                    text   |-> checks[i].Description]]),
                    events   |-> Append(acc.events,
                                  CheckEvent(checks[i], d, buildErr, testErr))]
         IN  IF ok
             THEN EvalChecks_stopAtFailure(checks, i + 1, nx, d, buildErr, testErr)
             ELSE nx

\* The loop of Run over the checks (part_000:73-87): [passed, evidence, events]
RECURSIVE EvalChecks(_, _, _, _, _, _)
EvalChecks(checks, i, acc, d, buildErr, testErr) ==
    IF i > Len(checks) THEN acc
    ELSE LET ok == CheckPasses(checks[i], d, buildErr, testErr)
         IN  EvalChecks(checks, i + 1,
                 [passed   |-> IF ok THEN acc.passed + 1 ELSE acc.passed,
                  evidence |-> Append(acc.evidence,
                                  [CriterionID |-> checks[i].CriterionID,
                                   FilePath    |-> <<>>,
                                   Detail      |-> [prefix |-> IF ok THEN "passed"
                                                                ELSE "failed",
                                                    text   |-> checks[i].Description]]),
                  events   |-> Append(acc.events,
                                  CheckEvent(checks[i], d, buildErr, testErr))],
                 d, buildErr, testErr)

\* score := float64(passed) / float64(len(checks))
TVScore(passed, n) == FDiv(FInt(passed), FInt(n))

\* What TranslationValidator.Run returns and the calls it issues, given what
\* the build and the test command return (part_000:50-102): [result, events]
TVRunResult(in, d, buildErr, testErr) ==
    IF ~TVApplicable(in) \/ Len(buildChecks(in)) = 0
    THEN [result |-> SkipResult(TVName), events |-> <<>>]
    ELSE LET checks == buildChecks(in)
             ev == EvalChecks(checks, 1,
                       [passed |-> 0, evidence |-> <<>>, events |-> <<>>],
                       d, buildErr, testErr)
         IN  [result |-> [Name          |-> TVName,
                          Score         |-> TVScore(ev.passed, Len(checks)),
                          Verdict       |-> IF ev.passed < Len(checks)
                                            THEN VerdictFail ELSE VerdictPass,
                          Evidence      |-> ev.evidence,
                          Deterministic |-> TRUE],
              events |-> ev.events]

\* TranslationValidator.Run (part_000:50-102)
TVRun ==
    /\ tvResult = None
    /\ mrPc \in {"idle", "done"}
    /\ \E buildErr \in BOOLEAN, testErr \in BOOLEAN :
          /\ ( ~TVApplicable(input) \/ Len(input.ModifiedPackages) = 0 ) =>
                 buildErr = FALSE /\ testErr = FALSE
          /\ tvResult' = [result |-> TVRunResult(input, disk, buildErr, testErr).result,
                          err    |-> "nil"]
          /\ ioLog' = ioLog \o TVRunResult(input, disk, buildErr, testErr).events
    /\ UNCHANGED <<input, disk, disk0, faults>>
    /\ UNCHANGED mrVars
    /\ UNCHANGED scorerVars
    /\ UNCHANGED ownerVars
    /\ UNCHANGED cupboardVars

(***************************************************************************)
(* An inspection: the caller runs the two techniques one after the other,  *)
(* in either order, on one input snapshot.                                 *)
(***************************************************************************)
CupboardIdle ==
    /\ cupboard = None
    /\ attached = FALSE
    /\ crumbTable = <<>>
    /\ generated = 0
    /\ closes = 0
    /\ cbRet = None

OwnerIdle ==
    /\ weightMaps = <<DefaultWeights>>
    /\ callerConfigs = <<>>
    /\ scorers = <<>>

ScorerIdle ==
    /\ fused = FALSE
    /\ config = DefaultScorerConfig
    /\ scorerErr = "nil"
    /\ results = <<>>
    /\ cr = None
    /\ dw = None

InspectIdle ==
    /\ input = [WorkType |-> "docs", ModifiedFiles |-> <<>>, ModifiedPackages |-> <<>>,
                PRDCriteria |-> <<>>, UCCriteria |-> <<>>]
    /\ disk = InitialDisk
    /\ disk0 = InitialDisk
    /\ faults = 0
    /\ ioLog = <<>>
    /\ mrPc = "idle"
    /\ allMutants = <<>>
    /\ mi = 0
    /\ mrContent = <<>>
    /\ mrKilled = FALSE
    /\ mrResult = None
    /\ tvResult = None

InspectInit ==
    /\ ScorerIdle
    /\ OwnerIdle
    /\ CupboardIdle
    /\ input \in Inputs
    /\ disk = InitialDisk
    /\ disk0 = InitialDisk
    /\ faults = 0
    /\ ioLog = <<>>
    /\ mrPc = "idle"
    /\ allMutants = <<>>
    /\ mi = 0
    /\ mrContent = <<>>
    /\ mrKilled = FALSE
    /\ mrResult = None
    /\ tvResult = None

InspectNext ==
    \/ MRRunStart
    \/ MRApply
    \/ MRRunTests
    \/ MRRestore
    \/ MRFinish
    \/ TVRun

SpecInspect == InspectInit /\ [][InspectNext]_vars

(***************************************************************************)
(* Site discovery and mutant application over a family of sources: one     *)
(* file v.go, a declared package, no I/O faults.                           *)
(***************************************************************************)
SiteSources == { Render(s) : s \in Shapes } \cup { SrcAdd }

SitesInput ==
    [WorkType |-> "code", ModifiedFiles |-> <<PathV>>,
     ModifiedPackages |-> <<"./pkg/foo">>, PRDCriteria |-> <<>>, UCCriteria |-> <<>>]

SitesInit ==
    /\ ScorerIdle
    /\ OwnerIdle
    /\ CupboardIdle
    /\ input = SitesInput
    /\ \E src \in SiteSources :
          /\ disk = [InitialDisk EXCEPT ![PathV] = File(src)]
          /\ disk0 = [InitialDisk EXCEPT ![PathV] = File(src)]
    /\ faults = MaxFaults
    /\ ioLog = <<>>
    /\ mrPc = "idle"
    /\ allMutants = <<>>
    /\ mi = 0
    /\ mrContent = <<>>
    /\ mrKilled = FALSE
    /\ mrResult = None
    /\ tvResult = None

SpecSites == SitesInit /\ [][InspectNext]_vars

(***************************************************************************)
(* Operations of the scorer and of its caller.                             *)
(***************************************************************************)
\* NewScorer (composite.go:48-50): stores the configuration, reports nothing.
NewScorer(c) ==
    /\ config' = c
    /\ scorerErr' = "nil"
    /\ results' = <<>>
    /\ cr' = None
    /\ dw' = None
    /\ UNCHANGED fused
    /\ UNCHANGED inspectVars
    /\ UNCHANGED ownerVars
    /\ UNCHANGED cupboardVars

\* The caller adds one technique's result to the list of this inspection.
AppendResult(r) ==
    /\ Len(results) < MaxResults
    /\ results' = Append(results, r)
    /\ cr' = None
    /\ dw' = None
    /\ UNCHANGED <<fused, config, scorerErr>>
    /\ UNCHANGED inspectVars
    /\ UNCHANGED ownerVars
    /\ UNCHANGED cupboardVars

\* The caller starts the next inspection with an empty list.
NewInspection ==
    /\ results # <<>>
    /\ results' = <<>>
    /\ cr' = None
    /\ dw' = None
    /\ UNCHANGED <<fused, config, scorerErr>>
    /\ UNCHANGED inspectVars
    /\ UNCHANGED ownerVars
    /\ UNCHANGED cupboardVars

\* The caller presents a list it has prepared (composite_test.go:10-14).
PresentResults(rs) ==
    /\ results' = rs
    /\ cr' = None
    /\ dw' = None
    /\ UNCHANGED <<fused, config, scorerErr>>
    /\ UNCHANGED inspectVars
    /\ UNCHANGED ownerVars
    /\ UNCHANGED cupboardVars

CallScore ==
    /\ cr' = Score(config, results)
    /\ UNCHANGED <<fused, config, scorerErr, results, dw>>
    /\ UNCHANGED inspectVars
    /\ UNCHANGED ownerVars
    /\ UNCHANGED cupboardVars

CallDeterministicWeight ==
    /\ dw' = DeterministicWeight(config, results)
    /\ UNCHANGED <<fused, config, scorerErr, results, cr>>
    /\ UNCHANGED inspectVars
    /\ UNCHANGED ownerVars
    /\ UNCHANGED cupboardVars

ScorerInit ==
    /\ fused \in BOOLEAN
    /\ config \in Configs
    /\ scorerErr = "nil"
    /\ results = <<>>
    /\ cr = None
    /\ dw = None
    /\ InspectIdle
    /\ OwnerIdle
    /\ CupboardIdle

ScorerNext ==
    \/ \E c \in Configs : NewScorer(c)
    \/ \E r \in ResultPool : AppendResult(r)
    \/ NewInspection
    \/ \E rs \in PreparedLists : PresentResults(rs)
    \/ CallScore
    \/ CallDeterministicWeight

SpecScorer == ScorerInit /\ [][ScorerNext]_vars

(***************************************************************************)
(* End to end: the caller runs the translation validator and the mutation  *)
(* runner on one input, without I/O faults, and has a scorer score the two *)
(* results.                                                                *)
(***************************************************************************)
\* scorer.Score([]TechniqueResult{*tv, *mr})
ScoreInspection ==
    /\ tvResult # None
    /\ mrPc = "done"
    /\ cr = None
    /\ results' = <<tvResult.result, mrResult.result>>
    /\ cr' = Score(config, <<tvResult.result, mrResult.result>>)
    /\ UNCHANGED <<fused, config, scorerErr, dw>>
    /\ UNCHANGED inspectVars
    /\ UNCHANGED ownerVars
    /\ UNCHANGED cupboardVars

PipelineInit ==
    /\ fused \in BOOLEAN
    /\ config \in Configs
    /\ scorerErr = "nil"
    /\ results = <<>>
    /\ cr = None
    /\ dw = None
    /\ OwnerIdle
    /\ CupboardIdle
    /\ input \in Inputs
    /\ disk = InitialDisk
    /\ disk0 = InitialDisk
    /\ faults = MaxFaults
    /\ ioLog = <<>>
    /\ mrPc = "idle"
    /\ allMutants = <<>>
    /\ mi = 0
    /\ mrContent = <<>>
    /\ mrKilled = FALSE
    /\ mrResult = None
    /\ tvResult = None

PipelineNext ==
    \/ InspectNext
    \/ ScoreInspection

SpecPipeline == PipelineInit /\ [][PipelineNext]_vars

(***************************************************************************)
(* Ownership of weight tables.  A Go map value is a reference: copying a   *)
(* ScorerConfig copies the reference, not the table.  weightMaps is the    *)
(* heap of tables; a configuration's Weights field is an index into it.    *)
(***************************************************************************)
DefaultWeightsRef == 1

\* The map literal of a caller's own configuration (composite_test.go:158-166).
CustomWeights ==
    [n \in {"translation_validation", "mutation_testing"} |-> Hundredths(50)]

WrittenNames == {"translation_validation", "custom_technique"}

WrittenWeight == Hundredths(90)

\* DefaultScorerConfig (composite.go:31-40): a new map, filled by maps.Copy.
CallDefaultScorerConfig ==
    /\ Len(weightMaps) < MaxMaps
    /\ weightMaps' = Append(weightMaps, weightMaps[DefaultWeightsRef])
    /\ callerConfigs' = Append(callerConfigs,
                               [Weights          |-> Len(weightMaps) + 1,
                                AcceptThreshold  |-> DefaultAcceptThreshold,
                                MendThreshold    |-> DefaultMendThreshold,
                                MinDeterministic |-> DefaultMinDeterministic])
    /\ UNCHANGED scorers
    /\ UNCHANGED <<scorerVars, inspectVars, cupboardVars>>

\* A caller builds ScorerConfig{Weights: map[string]float64{...}, ...}.
ConfigLiteral ==
    /\ Len(weightMaps) < MaxMaps
    /\ weightMaps' = Append(weightMaps, CustomWeights)
    /\ callerConfigs' = Append(callerConfigs,
                               [Weights          |-> Len(weightMaps) + 1,
                                AcceptThreshold  |-> DefaultAcceptThreshold,
                                MendThreshold    |-> DefaultMendThreshold,
                                MinDeterministic |-> DefaultMinDeterministic])
    /\ UNCHANGED scorers
    /\ UNCHANGED <<scorerVars, inspectVars, cupboardVars>>

\* NewScorer(cfg) (composite.go:48-50): &Scorer{config: config}.
NewScorerFrom(c) ==
    /\ Len(scorers) < MaxScorers
    /\ scorers' = Append(scorers, [config |-> callerConfigs[c]])
    /\ UNCHANGED <<weightMaps, callerConfigs>>
    /\ UNCHANGED <<scorerVars, inspectVars, cupboardVars>>

\* The caller executes cfg.Weights[name] = w on a configuration it holds.
SetWeight(c, name, w) ==
    /\ weightMaps' =
          [weightMaps EXCEPT ![callerConfigs[c].Weights] =
              [n \in DOMAIN @ \cup {name} |-> IF n = name THEN w ELSE @[n]]]
    /\ UNCHANGED <<callerConfigs, scorers>>
    /\ UNCHANGED <<scorerVars, inspectVars, cupboardVars>>

OwnerInit ==
    /\ OwnerIdle
    /\ ScorerIdle
    /\ InspectIdle
    /\ CupboardIdle

OwnerNext ==
    \/ CallDefaultScorerConfig
    \/ ConfigLiteral
    \/ \E c \in 1..Len(callerConfigs) : NewScorerFrom(c)
    \/ \E c \in 1..Len(callerConfigs), name \in WrittenNames :
           SetWeight(c, name, WrittenWeight)

SpecOwner == OwnerInit /\ [][OwnerNext]_vars

(***************************************************************************)
(* internal/crumbs/cupboard.go: the Cupboard wrapper.  The backend is the  *)
(* SQLite backend of the crumbs module, used through types.Cupboard and    *)
(* types.Table: Attach, Detach, GetTable, Get, Set, Fetch.  Its behaviour  *)
(* is the one the tests of the package rely on: Detach is idempotent and   *)
(* GetTable fails on a detached backend (cupboard_test.go:232-276), Get    *)
(* fails for an id that is not stored (cupboard_test.go:144-157), Set with *)
(* an empty id generates one (cupboard_test.go:65-101).  Any call of a     *)
(* table may also fail, and a table entry need not be a *types.Crumb.      *)
(***************************************************************************)
DefaultDataDir == ".crumbs"

ErrCupboardAttach == "cobbler: cupboard attach failed"
ErrTableAccess == "cobbler: table access failed"
ErrCrumbGet == "cobbler: crumb get failed"
ErrCrumbSet == "cobbler: crumb set failed"
ErrCrumbFetch == "cobbler: crumb fetch failed"

DataDirs == {"", "/tmp/data"}

GeneratedIds == <<"id-1", "id-2">>

\* The ids of the model, in the order Fetch lists them.
IdOrder == <<"any-id", "id-1", "id-2">>

CallerIds == {"", "any-id", "id-1"}

Crumb(name, state) == [kind |-> "crumb", Name |-> name, State |-> state]

\* An entity of the table that is not a *types.Crumb.
ForeignEntity == [kind |-> "other", Name |-> "n", State |-> "ready"]

Crumbs == { Crumb("Test", st) : st \in {"ready", "taken"} }

\* nil, or the required value of the State field
Filters == {"nil", "ready"}

\* How a call of the backend ends: normally, with an error, or (Get, Fetch)
\* normally with an entity that is not a crumb.
BackendOutcomes == {"ok", "error", "foreign"}

IsCrumb(entity) == entity.kind = "crumb"

Matches(entity, filter) == filter = "nil" \/ entity.State = filter

StoredIds(table) == SelectSeq(IdOrder, LAMBDA i : i \in DOMAIN table)

\* Table.Fetch(filter) on the crumbs table: the matching entities.
TableFetch(table, filter, outcome) ==
    LET ids == SelectSeq(StoredIds(table), LAMBDA i : Matches(table[i], filter))
        es  == [k \in 1..Len(ids) |-> table[ids[k]]]
    IN  IF outcome = "foreign" THEN Append(es, ForeignEntity) ELSE es

\* NewCupboard (cupboard.go:43-63)
NewCupboard(dataDir, outcome) ==
    /\ cupboard = None
    /\ outcome \in {"ok", "error"}
    /\ IF outcome = "error"
       THEN /\ cbRet' = [op |-> "NewCupboard", val |-> "nil", err |-> ErrCupboardAttach]
            /\ UNCHANGED <<cupboard, attached>>
       ELSE /\ cupboard' = [backend |-> "sqlite",
                            dataDir |-> IF dataDir = "" THEN DefaultDataDir ELSE dataDir]
            /\ attached' = TRUE
            /\ cbRet' = [op |-> "NewCupboard", val |-> "cupboard", err |-> "nil"]
    /\ UNCHANGED <<crumbTable, generated, closes>>
    /\ UNCHANGED <<scorerVars, inspectVars, ownerVars>>

\* Close (cupboard.go:67-72): c.backend is set by NewCupboard and never
\* cleared, so every call reaches backend.Detach.
Close ==
    /\ cupboard # None
    /\ attached' = FALSE
    /\ closes' = IF closes < MaxCloses THEN closes + 1 ELSE closes
    /\ cbRet' = [op |-> "Close", val |-> "nil", err |-> "nil"]
    /\ UNCHANGED <<cupboard, crumbTable, generated>>
    /\ UNCHANGED <<scorerVars, inspectVars, ownerVars>>

\* What GetCrumb returns (cupboard.go:76-93).
GetCrumbResult(att, table, id, outcome) ==
    IF ~att THEN [val |-> "nil", err |-> ErrTableAccess]
    ELSE IF outcome = "error" \/ id \notin DOMAIN table
    THEN [val |-> "nil", err |-> ErrCrumbGet]
    ELSE LET entity == IF outcome = "foreign" THEN ForeignEntity ELSE table[id]
         IN  IF ~IsCrumb(entity) THEN [val |-> "nil", err |-> ErrCrumbGet]
             ELSE [val |-> entity, err |-> "nil"]

GetCrumb(id, outcome) ==
    /\ cupboard # None
    /\ cbRet' = [op |-> "GetCrumb"] @@ GetCrumbResult(attached, crumbTable, id, outcome)
    /\ UNCHANGED <<cupboard, attached, crumbTable, generated, closes>>
    /\ UNCHANGED <<scorerVars, inspectVars, ownerVars>>

\* SetCrumb without the check of the error GetTable returned.
SetCrumb_noTableCheck(id, crumb, outcome) ==
    /\ cupboard # None
    /\ outcome \in {"ok", "error"}
    /\ id = "" => generated < Len(GeneratedIds)
    /\ IF outcome = "error"
       THEN /\ cbRet' = [op |-> "SetCrumb", val |-> "", err |-> ErrCrumbSet]
            /\ UNCHANGED <<crumbTable, generated>>
       ELSE LET actualID == IF id = "" THEN GeneratedIds[generated + 1] ELSE id
            IN  /\ crumbTable' = [i \in DOMAIN crumbTable \cup {actualID} |->
                                     IF i = actualID THEN crumb ELSE crumbTable[i]]
                /\ generated' = IF id = "" THEN generated + 1 ELSE generated
                /\ cbRet' = [op |-> "SetCrumb", val |-> actualID, err |-> "nil"]
    /\ UNCHANGED <<cupboard, attached, closes>>
    /\ UNCHANGED <<scorerVars, inspectVars, ownerVars>>

\* SetCrumb (cupboard.go:98-110)
SetCrumb(id, crumb, outcome) ==
    /\ cupboard # None
    /\ outcome \in {"ok", "error"}
    /\ ( attached /\ outcome = "ok" /\ id = "" ) => generated < Len(GeneratedIds)
    /\ IF ~attached
       THEN /\ cbRet' = [op |-> "SetCrumb", val |-> "", err |-> ErrTableAccess]
            /\ UNCHANGED <<crumbTable, generated>>
       ELSE IF outcome = "error"
       THEN /\ cbRet' = [op |-> "SetCrumb", val |-> "", err |-> ErrCrumbSet]
            /\ UNCHANGED <<crumbTable, generated>>
       ELSE LET actualID == IF id = "" THEN GeneratedIds[generated + 1] ELSE id
            IN  /\ crumbTable' = [i \in DOMAIN crumbTable \cup {actualID} |->
                                     IF i = actualID THEN crumb ELSE crumbTable[i]]
                /\ generated' = IF id = "" THEN generated + 1 ELSE generated
                /\ cbRet' = [op |-> "SetCrumb", val |-> actualID, err |-> "nil"]
    /\ UNCHANGED <<cupboard, attached, closes>>
    /\ UNCHANGED <<scorerVars, inspectVars, ownerVars>>

\* The loop returning the crumbs collected so far together with the error.
RECURSIVE CollectCrumbs_partial(_, _, _)
CollectCrumbs_partial(entities, k, crumbs) ==
    IF k > Len(entities) THEN [val |-> crumbs, err |-> "nil"]
    ELSE IF ~IsCrumb(entities[k]) THEN [val |-> crumbs, err |-> ErrCrumbFetch]
    ELSE CollectCrumbs_partial(entities, k + 1, Append(crumbs, entities[k]))

\* The loop of FetchCrumbs (cupboard.go:127-134) from entity k on.
RECURSIVE CollectCrumbs(_, _, _)
CollectCrumbs(entities, k, crumbs) ==
    IF k > Len(entities) THEN [val |-> crumbs, err |-> "nil"]
    ELSE IF ~IsCrumb(entities[k]) THEN [val |-> "nil", err |-> ErrCrumbFetch]
    ELSE CollectCrumbs(entities, k + 1, Append(crumbs, entities[k]))

\* What FetchCrumbs returns (cupboard.go:116-137).
FetchCrumbsResult(att, table, filter, outcome) ==
    IF ~att THEN [val |-> "nil", err |-> ErrTableAccess]
    ELSE IF outcome = "error" THEN [val |-> "nil", err |-> ErrCrumbFetch]
    ELSE CollectCrumbs(TableFetch(table, filter, outcome), 1, <<>>)

FetchCrumbs(filter, outcome) ==
    /\ cupboard # None
    /\ cbRet' = [op |-> "FetchCrumbs"]
                    @@ FetchCrumbsResult(attached, crumbTable, filter, outcome)
    /\ UNCHANGED <<cupboard, attached, crumbTable, generated, closes>>
    /\ UNCHANGED <<scorerVars, inspectVars, ownerVars>>

CupboardInit ==
    /\ CupboardIdle
    /\ ScorerIdle
    /\ InspectIdle
    /\ OwnerIdle

CupboardNext ==
    \/ \E d \in DataDirs, o \in BackendOutcomes : NewCupboard(d, o)
    \/ Close
    \/ \E id \in CallerIds, o \in BackendOutcomes : GetCrumb(id, o)
    \/ \E id \in CallerIds, c \in Crumbs, o \in BackendOutcomes : SetCrumb(id, c, o)
    \/ \E f \in Filters, o \in BackendOutcomes : FetchCrumbs(f, o)

SpecCupboard == CupboardInit /\ [][CupboardNext]_vars

(***************************************************************************)
(* Definitions used to state the properties of the scorer.                 *)
(***************************************************************************)
NonSkip(rs) == { i \in 1..Len(rs) : rs[i].Verdict # VerdictSkip }

\* Exact arithmetic on m * 2^e, m a natural of any size, for stating how far
\* a non-negative float64 result is from the number it approximates.
Exact(x) == [m |-> x.m, e |-> x.e]

ExactMul(a, b) == [m |-> BMul(a.m, b.m), e |-> a.e + b.e]

ExactAdd(a, b) ==
    LET e == IF a.e < b.e THEN a.e ELSE b.e
    IN  [m |-> BAdd(BShl(a.m, a.e - e), BShl(b.m, b.e - e)), e |-> e]

\* |a - b|
ExactDist(a, b) ==
    LET e  == IF a.e < b.e THEN a.e ELSE b.e
        am == BShl(a.m, a.e - e)
        bm == BShl(b.m, b.e - e)
    IN  [m |-> IF BCmp(am, bm) >= 0 THEN BSub(am, bm) ELSE BSub(bm, am), e |-> e]

ExactLeq(a, b) ==
    LET e == IF a.e < b.e THEN a.e ELSE b.e
    IN  BCmp(BShl(a.m, a.e - e), BShl(b.m, b.e - e)) <= 0

RECURSIVE ExactSum(_, _)
ExactSum(f, S) ==
    IF S = {} THEN [m |-> <<>>, e |-> 0]
    ELSE LET x == CHOOSE y \in S : TRUE IN ExactAdd(f[x], ExactSum(f, S \ {x}))

\* The weight claimed for a name absent from the weight map: 0.10
ClaimedUnknownWeight == Hundredths(10)

\* c = n / d up to the rounding of float64 arithmetic: |c*d - n| <= n * 2^-48
NearQuotient(c, n, d) ==
    ExactLeq(ExactDist(ExactMul(Exact(c), d), n), [m |-> n.m, e |-> n.e - 48])

Perms(n) == { p \in [1..n -> 1..n] : \A i, j \in 1..n : p[i] = p[j] => i = j }

Permuted(rs, p) == [i \in 1..Len(rs) |-> rs[p[i]]]

Outcome(c) == <<c.ValidScore, c.CompositeScore, c.Action>>

IsSkipResult(r) == r.Verdict = VerdictSkip

IsScoredResult(r) == r.Verdict # VerdictSkip

WeightsInUnitRange(cfg) ==
    \A n \in DOMAIN cfg.Weights :
        FGeq(cfg.Weights[n], FZero) /\ FLeq(cfg.Weights[n], FOne)

ScoresInUnitRange(rs) ==
    \A i \in 1..Len(rs) : FGeq(rs[i].Score, FZero) /\ FLeq(rs[i].Score, FOne)

ScenarioB ==
    << TechniqueResult("translation_validation", Hundredths(60), VerdictFail, FALSE),
       TechniqueResult("mutation_testing", Hundredths(70), VerdictFail, TRUE) >>

(***************************************************************************)
(* C1.  A Score call on a list with fewer than two non-skip results        *)
(* returns ValidScore = false, Action = human_review and CompositeScore =  *)
(* 0, whatever the names, scores, weights and thresholds; so accept and    *)
(* mend are returned only for at least two non-skip results.               *)
(***************************************************************************)
C1_ValidityFloor ==
    cr # None =>
        /\ Cardinality(NonSkip(cr.TechniqueResults)) < 2 =>
              /\ cr.ValidScore = FALSE
              /\ cr.Action = ActionHumanReview
              /\ cr.CompositeScore = FZero
        /\ cr.Action \in {ActionAccept, ActionMend} =>
              Cardinality(NonSkip(cr.TechniqueResults)) >= 2

\* One full-score result next to skipped ones: still invalid.
C1_Witness ==
    /\ cr # None
    /\ Len(cr.TechniqueResults) >= 2
    /\ Cardinality(NonSkip(cr.TechniqueResults)) = 1
    /\ \E i \in NonSkip(cr.TechniqueResults) : cr.TechniqueResults[i].Score = FOne
    /\ cr.ValidScore = FALSE

(***************************************************************************)
(* C2.  With every weight and every score in [0,1] and at least two        *)
(* non-skip results, the composite score is a defined number in [0,1].     *)
(* (Stated as claimed; the code divides by a total weight of zero.)        *)
(***************************************************************************)
C2_CompositeInUnitRange ==
    ( /\ cr # None
      /\ Cardinality(NonSkip(cr.TechniqueResults)) >= 2
      /\ WeightsInUnitRange(config)
      /\ ScoresInUnitRange(cr.TechniqueResults) ) =>
        /\ ~FIsNaN(cr.CompositeScore)
        /\ ~FIsInf(cr.CompositeScore)
        /\ FGeq(cr.CompositeScore, FZero)
        /\ FLeq(cr.CompositeScore, FOne)

C4_ThreeBands ==
    ( /\ cr # None
      /\ Cardinality(NonSkip(cr.TechniqueResults)) >= 2
      /\ ~FIsNaN(cr.CompositeScore) ) =>
        /\ cr.Action = ActionAccept <=> FGeq(cr.CompositeScore, config.AcceptThreshold)
        /\ cr.Action = ActionMend <=>
              ( /\ FGeq(cr.CompositeScore, config.MendThreshold)
                /\ FLt(cr.CompositeScore, config.AcceptThreshold) )
        /\ cr.Action = ActionHumanReview <=> FLt(cr.CompositeScore, config.MendThreshold)

(***************************************************************************)
(* C4 as amended.  For a valid composite: accept iff composite >= accept   *)
(* threshold; mend iff composite >= mend threshold and not composite >=    *)
(* accept threshold; human_review in every other case.  With the default   *)
(* configuration scenario B gives a composite strictly between 0.50 and    *)
(* 0.80 and the action mend.                                               *)
(***************************************************************************)
C4_ThresholdCascade ==
    ( cr # None /\ Cardinality(NonSkip(cr.TechniqueResults)) >= 2 ) =>
        /\ cr.Action = ActionAccept <=> FGeq(cr.CompositeScore, config.AcceptThreshold)
        /\ cr.Action = ActionMend <=>
              ( /\ ~FGeq(cr.CompositeScore, config.AcceptThreshold)
                /\ FGeq(cr.CompositeScore, config.MendThreshold) )
        /\ cr.Action = ActionHumanReview <=>
              ( /\ ~FGeq(cr.CompositeScore, config.AcceptThreshold)
                /\ ~FGeq(cr.CompositeScore, config.MendThreshold) )
        /\ ( config = DefaultScorerConfig /\ cr.TechniqueResults = ScenarioB ) =>
              /\ cr.Action = ActionMend
              /\ FLt(cr.CompositeScore, DefaultAcceptThreshold)
              /\ FLt(DefaultMendThreshold, cr.CompositeScore)

\* Scenario B has been scored with the default configuration.
C4_Witness ==
    /\ cr # None
    /\ config = DefaultScorerConfig
    /\ cr.TechniqueResults = ScenarioB
    /\ cr.Action = ActionMend

(***************************************************************************)
(* C5 as claimed, in its weakest consequence.  For a configuration whose   *)
(* weights lie in [0,1], the action Score returned is the action it        *)
(* returns on every permutation of the list.  (The claim asserts the same  *)
(* of the composite score and of the fraction DeterministicWeight returns, *)
(* which differ between two orders in the last bit more often still.)      *)
(***************************************************************************)
C5_OrderIndependent ==
    ( WeightsInUnitRange(config) /\ cr # None ) =>
        /\ cr.TechniqueResults = results
        /\ \A p \in Perms(Len(results)) :
               Score(config, Permuted(results, p)).Action = cr.Action

(***************************************************************************)
(* C8 as claimed.  A configuration with a weight outside [0,1] is reported *)
(* as ErrInvalidWeight when the scorer is constructed, and scoring with no *)
(* technique at all as ErrNoTechniques; Score produces no composite from   *)
(* such a configuration.                                                   *)
(***************************************************************************)
C8_ConfigErrorsReported ==
    /\ ~WeightsInUnitRange(config) =>
          /\ scorerErr = ErrInvalidWeight
          /\ cr # None => cr.ValidScore = FALSE
    /\ ( cr # None /\ cr.TechniqueResults = <<>> ) => scorerErr = ErrNoTechniques

(***************************************************************************)
(* Definitions used to state the properties of the techniques.             *)
(***************************************************************************)
LogIndices == 1..Len(ioLog)

\* Events issued by MutationRunner.Run.
IsMREvent(e) ==
    \/ e.op \in {"read", "write"}
    \/ e.op = "test" /\ e.by = MRName

\* Events issued by TranslationValidator.Run.
IsTVEvent(e) ==
    \/ e.op = "stat"
    \/ e.op \in {"build", "test"} /\ e.by = TVName

\* Mutants whose mutated content was written.
AppliedMutants ==
    { i \in 1..Len(allMutants) :
        \E k \in LogIndices :
            /\ ioLog[k].op = "write"
            /\ ioLog[k].kind = "mutated"
            /\ ioLog[k].ok
            /\ ioLog[k].mutant = i }

\* Mutants during whose application the test command failed.
KilledMutants ==
    { i \in AppliedMutants :
        \E k \in LogIndices :
            /\ ioLog[k].op = "test"
            /\ ioLog[k].by = MRName
            /\ ioLog[k].mutant = i
            /\ ioLog[k].failed }

RestoreFailed ==
    \E k \in LogIndices :
        /\ ioLog[k].op = "write"
        /\ ioLog[k].kind = "restore"
        /\ ~ioLog[k].ok

(***************************************************************************)
(* C6 as claimed.  After MutationRunner.Run has finished, every file holds *)
(* the bytes it held before the run, whether a mutant was killed,          *)
(* survived or did not apply, and also when a file write or the test       *)
(* command failed along the way.                                           *)
(***************************************************************************)
C6_FilesRestored ==
    mrPc = "done" => \A p \in Paths : disk[p] = disk0[p]

(***************************************************************************)
(* C7 as claimed.  When the write that restores the original bytes fails,  *)
(* the caller is told: through the error Run returns or through an         *)
(* evidence entry of the result that reports the failed restoration.       *)
(***************************************************************************)
C7_RestoreFailureReported ==
    ( mrPc = "done" /\ RestoreFailed ) =>
        \/ mrResult.err # "nil"
        \/ \E k \in 1..Len(mrResult.result.Evidence) :
               mrResult.result.Evidence[k].Detail.text # "surviving mutant"

(***************************************************************************)
(* C9.  When at least one non-equivalent mutant exists, Run returns        *)
(* score = killed / (total - equivalent), a mutant being killed iff its    *)
(* mutated content was written and the test command failed while it was    *)
(* applied; the verdict is pass iff the score is 1.0 and fail otherwise.   *)
(***************************************************************************)
C9_MutationScore ==
    ( mrPc = "done" /\ Len(allMutants) > 0 ) =>
        LET equivalent == { i \in 1..Len(allMutants) : allMutants[i].Equivalent }
            total == Len(allMutants) - Cardinality(equivalent)
            killed == Cardinality(KilledMutants \ equivalent)
            r == mrResult.result
        IN  /\ \A i \in 1..Len(allMutants) :
                   allMutants[i].Killed <=> i \in KilledMutants
            /\ total > 0 =>
                  /\ r.Score = FDiv(FInt(killed), FInt(total))
                  /\ NearQuotient(r.Score, Exact(FInt(killed)), Exact(FInt(total)))
                  /\ r.Verdict = VerdictPass <=> FEq(r.Score, FOne)
                  /\ r.Verdict = VerdictPass <=> killed = total
                  /\ r.Verdict \in {VerdictPass, VerdictFail}
                  /\ mrResult.err = "nil"

\* A finished run in which one mutant was killed and another survived its tests.
C9_Witness ==
    /\ mrPc = "done"
    /\ KilledMutants # {}
    /\ AppliedMutants \ KilledMutants # {}
    /\ mrResult.result.Verdict = VerdictFail

(***************************************************************************)
(* C10.  When a technique is not applicable, its Run returns verdict skip, *)
(* score 0, deterministic = true, no evidence and a nil error, and issues  *)
(* no file write and no build or test command.  The mutation runner is     *)
(* applicable iff the work type is "code" and a modified package is        *)
(* declared; the translation validator iff a criterion is present.         *)
(***************************************************************************)
C10_SkipWhenNotApplicable ==
    /\ ( mrResult # None
         /\ ~(input.WorkType = "code" /\ Len(input.ModifiedPackages) > 0) ) =>
          /\ mrResult.err = "nil"
          /\ mrResult.result.Verdict = VerdictSkip
          /\ mrResult.result.Score = FZero
          /\ mrResult.result.Deterministic = TRUE
          /\ mrResult.result.Evidence = <<>>
          /\ mrResult.result.Name = "mutation_testing"
          /\ \A k \in LogIndices : ~IsMREvent(ioLog[k])
          /\ disk = disk0
    /\ ( mrResult # None
         /\ input.WorkType = "code" /\ Len(input.ModifiedPackages) > 0
         /\ PathA \in { input.ModifiedFiles[i] : i \in 1..Len(input.ModifiedFiles) } ) =>
          mrResult.result.Verdict # VerdictSkip
    /\ ( tvResult # None
         /\ Len(input.PRDCriteria) = 0 /\ Len(input.UCCriteria) = 0 ) =>
          /\ tvResult.err = "nil"
          /\ tvResult.result.Verdict = VerdictSkip
          /\ tvResult.result.Score = FZero
          /\ tvResult.result.Deterministic = TRUE
          /\ tvResult.result.Evidence = <<>>
          /\ tvResult.result.Name = "translation_validation"
          /\ \A k \in LogIndices : ~IsTVEvent(ioLog[k])

\* Both techniques have run on a documentation change that names a source
\* file and a package but carries no criterion.
C10_Witness ==
    /\ mrResult # None
    /\ tvResult # None
    /\ input.WorkType = "docs"
    /\ Len(input.ModifiedPackages) > 0
    /\ Len(input.ModifiedFiles) > 0
    /\ Len(input.PRDCriteria) = 0
    /\ Len(input.UCCriteria) = 0
    /\ mrResult.result.Verdict = VerdictSkip
    /\ tvResult.result.Verdict = VerdictSkip

(***************************************************************************)
(* C11.  In MutationRunner.Run a modified file ending in _test.go is never *)
(* a mutation candidate; a file that cannot be read or parsed is dropped   *)
(* without an error while the files after it are still searched; and when  *)
(* no mutant was discovered the result is skip with score 0, deterministic *)
(* = true, no evidence and a nil error, and no file is written and no test *)
(* command is invoked.                                                     *)
(***************************************************************************)
IsCandidate(f) == HasSuffix(f, SuffixGo) /\ ~HasSuffix(f, SuffixTestGo)

\* f was a readable, parseable source with at least one site before the run.
HasSites(f) ==
    /\ disk0[f].exists
    /\ ~ParseFile(disk0, f).err
    /\ \E k \in 1..Len(ParseFile(disk0, f).nodes) :
           NodeMutants(f, ParseFile(disk0, f).nodes[k]) # <<>>

ModifiedFileSet == { input.ModifiedFiles[i] : i \in 1..Len(input.ModifiedFiles) }

MutantFiles == { allMutants[i].FilePath : i \in 1..Len(allMutants) }

C11_DiscoveryTolerant ==
    ( mrPc # "idle" /\ MRApplicable(input) ) =>
        /\ \A f \in MutantFiles :
               f \in ModifiedFileSet /\ IsCandidate(f) /\ HasSites(f)
        /\ \A f \in ModifiedFileSet :
               ( IsCandidate(f) /\ HasSites(f) ) => f \in MutantFiles
        /\ mrResult # None => mrResult.err = "nil"
        /\ ( mrResult # None
             /\ ~\E f \in ModifiedFileSet : IsCandidate(f) /\ HasSites(f) ) =>
              /\ mrResult.result.Verdict = VerdictSkip
              /\ mrResult.result.Score = FZero
              /\ mrResult.result.Deterministic = TRUE
              /\ mrResult.result.Evidence = <<>>
              /\ \A k \in LogIndices : ~IsMREvent(ioLog[k])
              /\ disk = disk0

\* A run found the mutants of a source listed after a file that does not parse.
C11_Witness ==
    /\ mrPc = "done"
    /\ MRApplicable(input)
    /\ allMutants # <<>>
    /\ \E i, j \in 1..Len(input.ModifiedFiles) :
           /\ i < j
           /\ IsCandidate(input.ModifiedFiles[i])
           /\ ParseFile(disk0, input.ModifiedFiles[i]).err
           /\ input.ModifiedFiles[j] \in MutantFiles

(***************************************************************************)
(* C12.  TranslationValidator.Run, applicable with N >= 1 generated checks *)
(* of which P pass, returns score P/N, verdict pass iff P = N and fail     *)
(* otherwise, and a nil error also when the build or the test command      *)
(* fails; applicable with no check generated it returns skip with score 0. *)
(* Two modified files of which one is missing, and no package, give score  *)
(* 0.5, verdict fail and two evidence entries, one passed and one failed.  *)
(***************************************************************************)
\* Checks that passed, as the calls the validator issued tell.
TVPassedEvents ==
    { k \in LogIndices :
        \/ ioLog[k].op = "stat" /\ ioLog[k].ok
        \/ ioLog[k].op \in {"build", "test"} /\ ioLog[k].by = TVName
               /\ ~ioLog[k].failed }

TVCheckCount ==
    Len(input.ModifiedFiles) + (IF Len(input.ModifiedPackages) > 0 THEN 2 ELSE 0)

EvidenceWith(r, prefix) ==
    { k \in 1..Len(r.Evidence) : r.Evidence[k].Detail.prefix = prefix }

ScenarioD ==
    /\ input.ModifiedFiles = <<PathA, PathMissing>>
    /\ Len(input.ModifiedPackages) = 0
    /\ Len(input.PRDCriteria) > 0 \/ Len(input.UCCriteria) > 0

C12_TVScore ==
    ( tvResult # None
      /\ (Len(input.PRDCriteria) > 0 \/ Len(input.UCCriteria) > 0) ) =>
        LET r == tvResult.result
            N == TVCheckCount
            P == Cardinality(TVPassedEvents)
        IN  /\ tvResult.err = "nil"
            /\ N = 0 =>
                  /\ r.Verdict = VerdictSkip
                  /\ r.Score = FZero
            /\ N >= 1 =>
                  /\ r.Score = FDiv(FInt(P), FInt(N))
                  /\ NearQuotient(r.Score, Exact(FInt(P)), Exact(FInt(N)))
                  /\ r.Verdict = (IF P = N THEN VerdictPass ELSE VerdictFail)
                  /\ \A k \in LogIndices :
                         ( ioLog[k].op = "stat" ) =>
                             ioLog[k].ok = disk[ioLog[k].path].exists
            /\ ScenarioD =>
                  /\ r.Score = Hundredths(50)
                  /\ r.Verdict = VerdictFail
                  /\ Len(r.Evidence) = 2
                  /\ Cardinality(EvidenceWith(r, "passed")) = 1
                  /\ Cardinality(EvidenceWith(r, "failed")) = 1

\* The validator has run on two modified files of which one is missing.
C12_Witness ==
    /\ tvResult # None
    /\ ScenarioD
    /\ tvResult.result.Verdict = VerdictFail

(***************************************************************************)
(* C13.  The criteria only gate applicability of the translation           *)
(* validator: for the input of the run and any other input that carries at *)
(* least one criterion and has the same modified files and packages, with  *)
(* the same outcomes of the build and test commands and the same files on  *)
(* disk, Run generates the same checks and returns the same score, verdict *)
(* and evidence, whatever the text and the number of the criteria.         *)
(***************************************************************************)
\* What the build and the test command returned to the validator, as logged
\* (FALSE for a command that was not invoked).
TVCommandFailed(op) ==
    \E k \in LogIndices :
        ioLog[k].op = op /\ ioLog[k].by = TVName /\ ioLog[k].failed

\* Pairs of PRD and use-case criteria, at least one criterion in each pair.
OtherCriteria ==
    { << <<"x">>, <<>> >>,
      << <<>>, <<"Files exist", "Files exist", "y">> >>,
      << <<"Code compiles and tests pass", "Files present">>, <<"x">> >> }

SameButCriteria(in) ==
    { [in EXCEPT !.PRDCriteria = c[1], !.UCCriteria = c[2]] : c \in OtherCriteria }

C14_DeterministicFraction ==
    dw # None =>
        LET ns == SelectSeq(results, IsScoredResult)
            w  == [i \in 1..Len(ns) |-> IF ns[i].Name \in DOMAIN config.Weights
                                        THEN config.Weights[ns[i].Name]
                                        ELSE ClaimedUnknownWeight]
            sumW[i \in 0..Len(ns)] ==
                IF i = 0 THEN FZero ELSE FAdd(sumW[i - 1], w[i])
            sumD[i \in 0..Len(ns)] ==
                IF i = 0 THEN FZero
                ELSE IF ns[i].Deterministic THEN FAdd(sumD[i - 1], w[i])
                ELSE sumD[i - 1]
        IN  FLt(FZero, sumW[Len(ns)]) =>
                /\ dw = FDiv(sumD[Len(ns)], sumW[Len(ns)])
                /\ DeterministicWeight(config, ns) = dw
                /\ \A s \in { r \in ResultPool : IsSkipResult(r) } :
                       /\ DeterministicWeight(config, Append(results, s)) = dw
                       /\ DeterministicWeight(config,
                              Append(results, [s EXCEPT !.Deterministic = ~@])) = dw
                /\ FGeq(dw, FZero)
                /\ FLeq(dw, FOne)

(***************************************************************************)
(* C15.  Score reads neither the Deterministic flag of a result nor the    *)
(* configured MinDeterministic: the validity flag, composite score and     *)
(* action it returned are those it returns when the flags are all         *)
(* inverted and MinDeterministic is 1, and when the flags are all cleared  *)
(* and MinDeterministic is 0.  So accept is returned also when the         *)
(* deterministic weight fraction is below the configured minimum.          *)
(***************************************************************************)
WithFlags(rs, how) ==
    [i \in 1..Len(rs) |->
        [rs[i] EXCEPT !.Deterministic =
            IF how = "cleared" THEN FALSE ELSE ~@]]

C15_DeterminismNotEnforced ==
    cr # None =>
        /\ cr.TechniqueResults = results
        /\ \A v \in { <<"flipped", FOne>>, <<"cleared", FZero>> } :
               Outcome(Score([config EXCEPT !.MinDeterministic = v[2]],
                             WithFlags(results, v[1]))) = Outcome(cr)

\* Accept returned although no scored result is deterministic.
C15_Witness ==
    /\ cr # None
    /\ cr.ValidScore
    /\ cr.Action = ActionAccept
    /\ \E i \in 1..Len(results) : ~results[i].Deterministic
    /\ FLt(DeterministicWeight(config, results), config.MinDeterministic)

(***************************************************************************)
(* C16 as claimed.  Each scorer owns its weight table: a step that changes *)
(* the weights one scorer uses (a write to an entry of the map of its      *)
(* configuration, also through the ScorerConfig value that was passed to   *)
(* NewScorer) changes the weights of no other scorer and leaves the        *)
(* package default table as it was; and the maps DefaultScorerConfig       *)
(* returned are distinct from each other and from DefaultWeights.          *)
(***************************************************************************)
\* The weight scorer s uses for a name: Scorer.weightFor on its own map.
ScorerWeights(maps, s) ==
    [n \in {"translation_validation", "mutation_testing", "custom_technique"} |->
        weightFor([Weights |-> maps[s.config.Weights]], n)]

C16_IndependentWeightTables ==
    [][ /\ weightMaps'[DefaultWeightsRef] = weightMaps[DefaultWeightsRef]
        /\ \A a, b \in 1..Len(scorers) :
              ( /\ a # b
                /\ scorers' = scorers
                /\ ScorerWeights(weightMaps', scorers[a])
                       # ScorerWeights(weightMaps, scorers[a]) ) =>
                  ScorerWeights(weightMaps', scorers[b])
                      = ScorerWeights(weightMaps, scorers[b])
        /\ \A i, j \in 1..Len(callerConfigs') :
              /\ callerConfigs'[i].Weights # DefaultWeightsRef
              /\ i # j => callerConfigs'[i].Weights # callerConfigs'[j].Weights
      ]_vars

(***************************************************************************)
(* Definitions used to compare a score with a decimal figure as the tests  *)
(* of the scorer do: math.Abs(got - expected) > 0.001 fails.               *)
(***************************************************************************)
Thousandths(n) == FDiv(FInt(n), FInt(1000))

FAbs(x) == IF x.k = "nan" THEN x ELSE [x EXCEPT !.neg = FALSE]

TestTolerance == Thousandths(1)

WithinTolerance(got, expected) ==
    FLeq(FAbs(FAdd(got, FNeg(expected))), TestTolerance)

ScenarioAScored ==
    /\ cr # None
    /\ config = DefaultScorerConfig
    /\ cr.TechniqueResults = ScenarioA

(***************************************************************************)
(* C17 as claimed.  With the default configuration scenario A yields a     *)
(* valid composite within 0.001 of 0.854 and the action accept.            *)
(***************************************************************************)
C17_ScenarioA_854 ==
    ScenarioAScored =>
        /\ cr.ValidScore
        /\ WithinTolerance(cr.CompositeScore, Thousandths(854))
        /\ cr.Action = ActionAccept

(***************************************************************************)
(* C17 as amended.  With the default configuration scenario A yields a     *)
(* valid composite of (0.90*0.30 + 0.85*0.25 + 0.80*0.20) / 0.75 =         *)
(* 257/300 = 0.8567 up to float64 rounding, which is within 0.001 of 0.857 *)
(* and not below the accept threshold, and the action accept.              *)
(***************************************************************************)
C17_ScenarioA ==
    ScenarioAScored =>
        /\ cr.ValidScore
        /\ NearQuotient(cr.CompositeScore, Exact(FInt(257)), Exact(FInt(300)))
        /\ WithinTolerance(cr.CompositeScore, Thousandths(857))
        /\ FGeq(cr.CompositeScore, DefaultAcceptThreshold)
        /\ cr.Action = ActionAccept

C17_Witness ==
    /\ ScenarioAScored
    /\ cr.ValidScore
    /\ cr.Action = ActionAccept

(***************************************************************************)
(* C18.  Close is idempotent: a Close after the first returns no error and *)
(* changes neither the cupboard, the backend nor the table.  After the     *)
(* first Close every GetCrumb, SetCrumb and FetchCrumbs call returns an    *)
(* error and no crumb, id or list, and the table is left as it was.        *)
(***************************************************************************)
CrumbOps == {"GetCrumb", "SetCrumb", "FetchCrumbs"}

ZeroValue(op) == IF op = "SetCrumb" THEN "" ELSE "nil"

MRLog == SelectSeq(ioLog, IsMREvent)

IsMutatedWriteOk(e) == e.op = "write" /\ e.kind = "mutated" /\ e.ok

\* Mutant i has been processed: applyAndTest has returned for it.
Processed(i) == i < mi \/ mrPc \in {"score", "done"}

C19_OneMutantAtATime ==
    LET L == MRLog
    IN  /\ \A k \in 1..Len(L) :
              IsMutatedWriteOk(L[k]) =>
                  /\ k > 1
                  /\ L[k - 1].op = "read" /\ L[k - 1].ok
                  /\ L[k - 1].mutant = L[k].mutant
                  /\ k + 1 <= Len(L) =>
                        /\ L[k + 1].op = "test"
                        /\ L[k + 1].mutant = L[k].mutant
                  /\ k + 2 <= Len(L) =>
                        /\ L[k + 2].op = "write" /\ L[k + 2].kind = "restore"
                        /\ L[k + 2].mutant = L[k].mutant
                        /\ L[k + 2].path = L[k].path
                        /\ L[k + 2].bytes = L[k - 1].bytes
                  /\ Processed(L[k].mutant) => k + 2 <= Len(L)
        /\ \A k \in 1..Len(L) :
              L[k].op = "test" => ( k > 1 /\ IsMutatedWriteOk(L[k - 1]) )
        /\ \A k \in 1..Len(L) :
              ( L[k].op = "write" /\ L[k].kind = "restore" ) =>
                  ( k > 2 /\ L[k - 1].op = "test" )
        /\ \A j, k \in 1..Len(L) : j < k => L[j].mutant <= L[k].mutant
        /\ \A i \in AppliedMutants :
              Processed(i) =>
                  Cardinality({ k \in 1..Len(L) :
                                   L[k].op = "test" /\ L[k].mutant = i }) = 1

\* Two mutants applied in one run, the first killed and the second not.
C19_Witness ==
    /\ mrPc = "done"
    /\ \E i, j \in AppliedMutants :
          /\ i < j
          /\ i \in KilledMutants
          /\ j \notin KilledMutants

(***************************************************************************)
(* C20.  A mutant that does not apply leaves everything untouched: when    *)
(* its file cannot be read, or its line is below 1 or beyond the last line *)
(* of the content read, or the original token does not occur on that line, *)
(* the mutant is recorded as not killed and neither a write nor a test     *)
(* invocation is issued for it.  Otherwise the content written differs     *)
(* from the content read on the mutant's line only, and there only in that *)
(* the first occurrence of the original token is replaced by the mutated   *)
(* token.                                                                  *)
(***************************************************************************)
\* The read issued for mutant i.
ReadsOf(i) == { k \in LogIndices : ioLog[k].op = "read" /\ ioLog[k].mutant = i }

WritesOf(i) == { k \in LogIndices : ioLog[k].op = "write" /\ ioLog[k].mutant = i }

MRTestsOf(i) ==
    { k \in LogIndices :
        ioLog[k].op = "test" /\ ioLog[k].by = MRName /\ ioLog[k].mutant = i }

\* The positions at which token occurs in line.
Occurrences(line, token) ==
    { p \in 1..Len(line) :
        p + Len(token) - 1 <= Len(line) /\ SubSeq(line, p, p + Len(token) - 1) = token }

LineOutOfRange(m, content) == m.Line < 1 \/ m.Line > Len(Split(content))

TokenAbsent(m, content) ==
    ~LineOutOfRange(m, content) /\ Occurrences(Split(content)[m.Line], m.Original) = {}

\* line with the occurrence of old at position p replaced by new
ReplacedAt(line, p, old, new) ==
    SubSeq(line, 1, p - 1) \o new \o SubSeq(line, p + Len(old), Len(line))

C20_NonApplyingMutant ==
    \A i \in 1..Len(allMutants) :
        Processed(i) =>
            /\ Cardinality(ReadsOf(i)) = 1
            /\ LET m == allMutants[i]
                   r == ioLog[CHOOSE k \in ReadsOf(i) : TRUE]
               IN  IF ~r.ok \/ LineOutOfRange(m, r.bytes) \/ TokenAbsent(m, r.bytes)
                   THEN /\ m.Killed = FALSE
                        /\ WritesOf(i) = {}
                        /\ MRTestsOf(i) = {}
                   ELSE \E k \in WritesOf(i) :
                          LET old == Split(r.bytes)
                              new == Split(ioLog[k].bytes)
                              p   == CHOOSE q \in Occurrences(old[m.Line], m.Original) :
                                        \A q2 \in Occurrences(old[m.Line], m.Original) :
                                            q <= q2
                          IN  /\ ioLog[k].kind = "mutated"
                              /\ ioLog[k].path = r.path
                              /\ Len(new) = Len(old)
                              /\ \A n \in 1..Len(old) : n # m.Line => new[n] = old[n]
                              /\ new[m.Line]
                                    = ReplacedAt(old[m.Line], p, m.Original, m.Mutated)

\* One run in which a mutant's line lies beyond the end of the content read
\* (an earlier write truncated the file) and a later mutant is applied to a
\* line that holds its token twice.
C20_Witness ==
    /\ mrPc = "done"
    /\ \E i, j \in 1..Len(allMutants) :
          /\ \E k \in ReadsOf(i) :
                ioLog[k].ok /\ LineOutOfRange(allMutants[i], ioLog[k].bytes)
          /\ \E k \in ReadsOf(j) :
                /\ ioLog[k].ok
                /\ ~LineOutOfRange(allMutants[j], ioLog[k].bytes)
                /\ Cardinality(Occurrences(Split(ioLog[k].bytes)[allMutants[j].Line],
                                           allMutants[j].Original)) = 2
          /\ j \in AppliedMutants

(***************************************************************************)
(* C21.  Site discovery yields, for each binary expression, one            *)
(* operator_replacement mutant iff its operator is one of + - * / == != <  *)
(* >= > <= && ||, and independently one boundary_change mutant iff its     *)
(* operator is one of < <= > >= (2 mutants for a relational site, 1 for    *)
(* the other listed operators, 0 for every other operator); exactly one    *)
(* condition_negation mutant per logical-not expression; never a           *)
(* statement_deletion mutant.  For the source of TestFindMutationSites it  *)
(* yields operator_replacement and boundary_change mutants for '<' and     *)
(* operator_replacement mutants for '+' and '-'.                           *)
(***************************************************************************)
ReplaceableOps ==
    {"ADD", "SUB", "MUL", "QUO", "EQL", "NEQ", "LSS", "GEQ", "GTR", "LEQ", "LAND", "LOR"}

RelationalOps == {"LSS", "LEQ", "GTR", "GEQ"}

\* The mutation types the claim expects of one node.
ExpectedTypes(n) ==
    (IF n.kind = "BinaryExpr" /\ n.Op \in ReplaceableOps
     THEN <<MutationOperatorReplace>> ELSE <<>>)
    \o (IF n.kind = "BinaryExpr" /\ n.Op \in RelationalOps
        THEN <<MutationBoundaryChange>> ELSE <<>>)
    \o (IF n.kind = "UnaryExpr" /\ n.Op = "NOT"
        THEN <<MutationConditionNegate>> ELSE <<>>)

RECURSIVE ExpectedTypesOf(_, _)
ExpectedTypesOf(nodes, k) ==
    IF k > Len(nodes) THEN <<>>
    ELSE ExpectedTypes(nodes[k]) \o ExpectedTypesOf(nodes, k + 1)

\* Run is past site discovery.
Discovered == mrPc # "idle"

HasMutant(type, original) ==
    \E i \in 1..Len(allMutants) :
        allMutants[i].Type = type /\ allMutants[i].Original = original

C21_SiteDiscovery ==
    Discovered =>
        LET nodes == ParseFile(disk0, PathV).nodes
        IN  /\ [i \in 1..Len(allMutants) |-> allMutants[i].Type]
                  = ExpectedTypesOf(nodes, 1)
            /\ \A n \in 1..Len(nodes) :
                  Len(ExpectedTypes(nodes[n]))
                      = IF nodes[n].kind = "UnaryExpr" THEN 1
                        ELSE IF nodes[n].Op \in RelationalOps THEN 2
                        ELSE IF nodes[n].Op \in ReplaceableOps THEN 1 ELSE 0
            /\ \A i \in 1..Len(allMutants) :
                  allMutants[i].Type # MutationStatementDelete
            /\ disk0[PathV].bytes = SrcAdd =>
                  /\ HasMutant(MutationOperatorReplace, <<"<">>)
                  /\ HasMutant(MutationBoundaryChange, <<"<">>)
                  /\ HasMutant(MutationOperatorReplace, <<"+">>)
                  /\ HasMutant(MutationOperatorReplace, <<"-">>)

\* Discovery has run on the source of TestFindMutationSites, and on a source
\* with a relational site, a logical not and an operator outside the tables.
C21_Witness ==
    /\ Discovered
    /\ \/ disk0[PathV].bytes = SrcAdd /\ Len(allMutants) = 4
       \/ /\ disk0[PathV].bytes
                = Render([op1 |-> "REM", op2 |-> "LSS", brk |-> FALSE, not |-> TRUE])
          /\ Len(allMutants) = 3

(***************************************************************************)
(* C22.  Every mutant produced by site discovery, whatever its type,       *)
(* records the 1-based line of its mutation site and, as Original and      *)
(* Mutated, the literal source text of the token replaced and of its       *)
(* replacement: Original occurs verbatim on the recorded line of the file, *)
(* so the mutant can be applied there.                                     *)
(***************************************************************************)
\* Mutant m can be applied to content: its line exists and holds Original.
Applies(m, content) ==
    /\ ~LineOutOfRange(m, content)
    /\ Occurrences(Split(content)[m.Line], m.Original) # {}
    /\ Replace1(Split(content)[m.Line], m.Original, m.Mutated)
          # Split(content)[m.Line]

C22_MutantsApplicable ==
    Discovered =>
        \A i \in 1..Len(allMutants) :
            /\ allMutants[i].Line >= 1
            /\ Applies(allMutants[i], disk0[allMutants[i].FilePath].bytes)

(***************************************************************************)
(* C25.  Whenever applyAndTest writes a mutated file, the one token        *)
(* occurrence that differs from the original content is the operator of    *)
(* the syntax node the mutant was discovered at, also when the same token  *)
(* text occurs earlier on that line or when the expression starts on a     *)
(* different line than its operator.                                       *)
(***************************************************************************)
\* The node each discovered mutant comes from, in the order of allMutants.
RECURSIVE SiteNodes(_, _)
SiteNodes(nodes, k) ==
    IF k > Len(nodes) THEN <<>>
    ELSE [j \in 1..Len(NodeMutants(PathV, nodes[k])) |-> nodes[k]]
             \o SiteNodes(nodes, k + 1)

\* content with the operator of node n replaced by the text new
MutatedAtNode(content, n, new) ==
    Join([Split(content) EXCEPT ![n.OpLine] =
             ReplacedAt(@, n.OpCol, TokString(n.Op), new)])

C25_MutatesTheSite ==
    \A k \in LogIndices :
        ioLog[k].op = "write" /\ ioLog[k].kind = "mutated" =>
            LET i == ioLog[k].mutant
                n == SiteNodes(ParseFile(disk0, PathV).nodes, 1)[i]
            IN  ioLog[k].bytes
                    = MutatedAtNode(disk0[PathV].bytes, n, allMutants[i].Mutated)

(***************************************************************************)
(* C23.  The operator-replacement table is a fixed bijection that is its   *)
(* own inverse and has no fixed point: + and -, * and /, == and !=, < and  *)
(* >=, > and <=, && and || are swapped, so replacing an operator twice     *)
(* returns the original; the boundary table likewise swaps < with <= and   *)
(* > with >=; an operator outside a table (assignment for replacement, +   *)
(* for boundary) is reported as not mutable.                               *)
(***************************************************************************)
ReplacementPairs ==
    { {"ADD", "SUB"}, {"MUL", "QUO"}, {"EQL", "NEQ"},
      {"LSS", "GEQ"}, {"GTR", "LEQ"}, {"LAND", "LOR"} }

BoundaryPairs == { {"LSS", "LEQ"}, {"GTR", "GEQ"} }

\* table(op), a record [ok, tok], swaps exactly the operators of pairs.
SwapsPairs(r, op, pairs) ==
    IF \E pr \in pairs : op \in pr
    THEN r.ok /\ r.tok # op /\ {op, r.tok} \in pairs
    ELSE ~r.ok

\* The operators of the expressions site discovery has looked up, and the
\* two operators the claim names as outside a table.
LookedUp ==
    { ParseFile(disk0, PathV).nodes[k].Op :
        k \in 1..Len(ParseFile(disk0, PathV).nodes) } \cup {"ASSIGN", "ADD"}

C23_TablesAreInvolutions ==
    Discovered =>
        /\ \A op \in LookedUp :
              /\ SwapsPairs(operatorReplacement(op), op, ReplacementPairs)
              /\ SwapsPairs(boundaryChange(op), op, BoundaryPairs)
              /\ operatorReplacement(op).ok =>
                    /\ operatorReplacement(operatorReplacement(op).tok).ok
                    /\ operatorReplacement(operatorReplacement(op).tok).tok = op
              /\ boundaryChange(op).ok =>
                    /\ boundaryChange(boundaryChange(op).tok).ok
                    /\ boundaryChange(boundaryChange(op).tok).tok = op
        /\ \A op1, op2 \in LookedUp :
              /\ operatorReplacement(op1).ok /\ operatorReplacement(op2).ok
                    /\ operatorReplacement(op1).tok = operatorReplacement(op2).tok
                 => op1 = op2
        /\ ~operatorReplacement("ASSIGN").ok
        /\ ~boundaryChange("ADD").ok

\* Discovery has looked up a relational operator (in both tables) and an
\* operator outside both tables.
C23_Witness ==
    /\ Discovered
    /\ "GEQ" \in LookedUp
    /\ "REM" \in LookedUp
    /\ \E i \in 1..Len(allMutants) :
          /\ allMutants[i].Type = MutationOperatorReplace
          /\ allMutants[i].Original = TokString("GEQ")
          /\ allMutants[i].Mutated = TokString("LSS")

(***************************************************************************)
(* C24.  The translation validator's evidence list has exactly one entry   *)
(* per generated check, in generation order: one file_exists entry per     *)
(* modified file path in input order, the i-th reflecting the existence of *)
(* the i-th path, then, iff a modified package is declared, one            *)
(* compilation entry followed by one tests_pass entry; every check is      *)
(* evaluated exactly once (the test check also when the build check        *)
(* failed), and an entry's detail starts with passed iff its check passed  *)
(* and with failed otherwise.                                              *)
(***************************************************************************)
\* The calls the validator issued, in order.
TVLog == SelectSeq(ioLog, IsTVEvent)

TVRan == tvResult # None /\ TVApplicable(input) /\ TVCheckCount > 0

EntryIs(ev, id, passed) ==
    /\ ev.CriterionID = id
    /\ ev.Detail.prefix = (IF passed THEN "passed" ELSE "failed")

C24_EvidencePerCheck ==
    TVRan =>
        LET ev == tvResult.result.Evidence
            nf == Len(input.ModifiedFiles)
        IN  /\ Len(ev) = TVCheckCount
            /\ Len(TVLog) = TVCheckCount
            /\ \A i \in 1..nf :
                  /\ EntryIs(ev[i], "file_exists", disk0[input.ModifiedFiles[i]].exists)
                  /\ TVLog[i].op = "stat"
                  /\ TVLog[i].path = input.ModifiedFiles[i]
            /\ Len(input.ModifiedPackages) > 0 =>
                  /\ TVLog[nf + 1].op = "build"
                  /\ EntryIs(ev[nf + 1], "compilation", ~TVLog[nf + 1].failed)
                  /\ TVLog[nf + 2].op = "test"
                  /\ EntryIs(ev[nf + 2], "tests_pass", ~TVLog[nf + 2].failed)

\* The validator has run on an existing and a missing file with a package
\* declared; the build failed and the tests passed.
C24_Witness ==
    /\ TVRan
    /\ input.ModifiedFiles = <<PathA, PathMissing>>
    /\ Len(tvResult.result.Evidence) = 4
    /\ EntryIs(tvResult.result.Evidence[2], "file_exists", FALSE)
    /\ EntryIs(tvResult.result.Evidence[3], "compilation", FALSE)
    /\ EntryIs(tvResult.result.Evidence[4], "tests_pass", TRUE)

(***************************************************************************)
(* C28.  MutationRunner.Run never sets a mutant's Equivalent flag, so in   *)
(* every run that discovers at least one mutant the scoring denominator    *)
(* equals the number of discovered mutants, mutants that did not apply     *)
(* included (each counted as a survivor with one evidence entry), the      *)
(* number of evidence entries equals the denominator minus the killed      *)
(* count, and the zero-denominator skip branch is never taken.             *)
(***************************************************************************)
\* The evidence entries that report mutant m as a survivor.
SurvivorEntries(r, m) ==
    { k \in 1..Len(r.Evidence) :
        /\ r.Evidence[k].FilePath = m.FilePath
        /\ r.Evidence[k].Detail.line = m.Line
        /\ r.Evidence[k].Detail.original = m.Original
        /\ r.Evidence[k].Detail.mutated = m.Mutated
        /\ r.Evidence[k].Detail.type = m.Type }

C28_EquivalentNeverSet ==
    /\ \A i \in 1..Len(allMutants) : ~allMutants[i].Equivalent
    /\ ( mrPc = "done" /\ Len(allMutants) > 0 ) =>
          LET r == mrResult.result
              killed == Cardinality(KilledMutants)
          IN  /\ r.Verdict # VerdictSkip
              /\ r.Score = FDiv(FInt(killed), FInt(Len(allMutants)))
              /\ Len(r.Evidence) = Len(allMutants) - killed
              /\ \A i \in 1..Len(allMutants) :
                    i \notin AppliedMutants =>
                        /\ ~allMutants[i].Killed
                        /\ Cardinality(SurvivorEntries(r, allMutants[i])) = 1

\* A finished run with a killed mutant and a mutant that did not apply.
C28_Witness ==
    /\ mrPc = "done"
    /\ KilledMutants # {}
    /\ \E i \in 1..Len(allMutants) :
          /\ i \notin AppliedMutants
          /\ allMutants[i].Type = MutationConditionNegate
    /\ Len(mrResult.result.Evidence) = Len(allMutants) - Cardinality(KilledMutants)

(***************************************************************************)
(* C26.  End to end, with the default configuration: if the test command   *)
(* fails on every invocation (the tests of the modified packages already   *)
(* fail on the unmutated sources), the composite action is never accept,   *)
(* for any number of modified files, discovered mutants and build          *)
(* outcomes.                                                               *)
(***************************************************************************)
TestsAlwaysFail ==
    \A k \in LogIndices : ioLog[k].op = "test" => ioLog[k].failed

C26_FailingTestsNeverAccepted ==
    ( cr # None /\ config = DefaultScorerConfig /\ TestsAlwaysFail ) =>
        cr.Action # ActionAccept

(***************************************************************************)
(* C27.  End to end, with the translation validator and the mutation       *)
(* runner as the only techniques: if the input's work type is not "code",  *)
(* or no modified package is declared, or no mutation site is discovered,  *)
(* the mutation result is skip and the composite outcome is                *)
(* ValidScore = false with action human_review, whatever the translation   *)
(* validator's score and whatever the thresholds.                          *)
(***************************************************************************)
NoSiteDiscovered == Len(CollectMutants(disk0, input.ModifiedFiles, 1)) = 0

MutationNotRun ==
    \/ input.WorkType # "code"
    \/ Len(input.ModifiedPackages) = 0
    \/ NoSiteDiscovered

C27_SkippedMutationNeedsReview ==
    ( cr # None /\ MutationNotRun ) =>
        /\ mrResult.result.Verdict = VerdictSkip
        /\ cr.ValidScore = FALSE
        /\ cr.Action = ActionHumanReview

\* Scored inspections in which the validator passed every check and the
\* mutation runner found no site in a code input with a declared package,
\* under thresholds other than the default ones.
C27_Witness ==
    /\ cr # None
    /\ input.WorkType = "code"
    /\ Len(input.ModifiedPackages) > 0
    /\ input.ModifiedFiles = <<>>
    /\ NoSiteDiscovered
    /\ tvResult.result.Verdict = VerdictPass
    /\ config.AcceptThreshold # DefaultAcceptThreshold

(***************************************************************************)
(* C29.  For every configuration with weights in [0,1] and every result    *)
(* list with at least two non-skip results whose total weight is positive, *)
(* the composite score lies between the smallest and the largest score of  *)
(* the non-skip results, and raising the score of one non-skip result      *)
(* while leaving everything else unchanged never lowers the composite      *)
(* score nor moves the action from accept to mend or from mend to          *)
(* human_review.                                                           *)
(***************************************************************************)
ActionRank(a) ==
    CASE a = ActionAccept -> 2 [] a = ActionMend -> 1 [] a = ActionHumanReview -> 0

\* The scores a result's score is raised to.
RaisedScores == { Hundredths(70), Hundredths(80), FOne }

TotalWeight(cfg, rs) ==
    ScoreLoop(cfg, rs, 1,
              [weightedSum |-> FZero, totalWeight |-> FZero, scored |-> 0]).totalWeight

C29_BoundedAndMonotone ==
    ( /\ cr # None
      /\ WeightsInUnitRange(config)
      /\ Cardinality(NonSkip(cr.TechniqueResults)) >= 2
      /\ FLt(FZero, TotalWeight(config, cr.TechniqueResults)) ) =>
        LET rs == cr.TechniqueResults
        IN  /\ \E i \in NonSkip(rs) : FLeq(rs[i].Score, cr.CompositeScore)
            /\ \E i \in NonSkip(rs) : FLeq(cr.CompositeScore, rs[i].Score)
            /\ \A i \in NonSkip(rs) : \A s \in RaisedScores :
                  FLt(rs[i].Score, s) =>
                      LET up == Score(config, [rs EXCEPT ![i].Score = s])
                      IN  /\ FGeq(up.CompositeScore, cr.CompositeScore)
                          /\ ActionRank(up.Action) >= ActionRank(cr.Action)

(***************************************************************************)
(* C30.  Each of GetCrumb, SetCrumb and FetchCrumbs returns either a       *)
(* result with a nil error or the zero result (nil crumb, empty id, nil    *)
(* slice) with a non-nil error, never both and never a partial list; the   *)
(* error wraps ErrTableAccess when the table lookup fails, and             *)
(* ErrCrumbGet, ErrCrumbSet or ErrCrumbFetch respectively when the table   *)
(* operation fails or returns an entity that is not a crumb.               *)
(***************************************************************************)
OpError(op) ==
    CASE op = "GetCrumb" -> ErrCrumbGet
      [] op = "SetCrumb" -> ErrCrumbSet
      [] op = "FetchCrumbs" -> ErrCrumbFetch

\* val is a result of op on the table as it stands.
IsResult(op, val) ==
    CASE op = "GetCrumb" ->
            \E id \in DOMAIN crumbTable : val = crumbTable[id] /\ IsCrumb(val)
      [] op = "SetCrumb" -> val # "" /\ val \in DOMAIN crumbTable
      [] op = "FetchCrumbs" ->
            \E f \in Filters : val = TableFetch(crumbTable, f, "ok")

C30_ResultOrError ==
    ( cbRet # None /\ cbRet.op \in CrumbOps ) =>
        /\ cbRet.err = "nil" => IsResult(cbRet.op, cbRet.val)
        /\ cbRet.err # "nil" => cbRet.val = ZeroValue(cbRet.op)
        /\ cbRet.err = ErrTableAccess <=> ~attached
        /\ ( cbRet.err # "nil" /\ attached ) => cbRet.err = OpError(cbRet.op)

\* FetchCrumbs failed on an attached cupboard that stores a crumb.
C30_Witness ==
    /\ cbRet # None
    /\ attached
    /\ DOMAIN crumbTable # {}
    /\ cbRet.op = "FetchCrumbs"
    /\ cbRet.err = ErrCrumbFetch
    /\ cbRet.val = "nil"
====
